---- MODULE Spec2Model ----
(***************************************************************************)
(* Memory Index: MemoryIndexManager (memory/manager-types.ts), MemorySyncer *)
(* and EmbeddingManager.  The model follows one manager instance: its      *)
(* Store handles (live database, temporary reindex database, the index     *)
(* files on disk), the syncer's flags and the position of the one runSync  *)
(* that may be in flight, and the embedding provider with its fallback.    *)
(*                                                                         *)
(* Configuration modelled: sources = {memory, sessions}, hybrid (FTS)      *)
(* enabled and available, vector extension enabled, sync.watch / onSearch /*)
(* onSessionStart on, session thresholds deltaBytes = 0, deltaMessages = 0;*)
(* embedding cache and remote batch off except in SpecCache and SpecBatch. *)
(*                                                                         *)
(* Specifications:                                                         *)
(*   Spec          syncs over a workspace whose files change, embedding    *)
(*                 calls that fail, the provider fallback;                 *)
(*   SpecCallers   every entry point of sync() and search();               *)
(*   SpecSwap      swapIndexFiles with a rename that fails;                *)
(*   SpecFallback  overlapping activateFallback calls;                     *)
(*   SpecRetry     embedBatchWithRetry and its backoff;                    *)
(*   SpecBatch     remote batch runs, their failure count, the fallback;   *)
(*   SpecSearch    search() over any query, options and scan results;      *)
(*   SpecCache     embedChunks with the embedding cache, and its pruning;  *)
(*   SpecKey       computeProviderKey over two provider configurations;    *)
(*   SpecRegistry  MemoryIndexManager.get and close() over INDEX_CACHE;    *)
(*   SpecWarm      warmSession and search() over session keys, blank ones  *)
(*                 included;                                               *)
(*   SpecRestore   a reindex that fails, and restoreOriginalState;         *)
(*   SpecBus       the session transcript event bus and its listeners;     *)
(*   SpecDelta     session transcripts that grow and rotate, under several *)
(*                 delta thresholds;                                       *)
(*   SpecTimers    the watch, session and interval timers under a clock,   *)
(*                 and MemorySyncer.close();                               *)
(*   SpecPack      buildEmbeddingBatches over chunks of several sizes;     *)
(*   SpecLock      batch runs that end together, queued on the batch       *)
(*                 failure lock;                                           *)
(*   SpecVec       syncs that succeed over memory files that may hold no   *)
(*                 chunk;                                                  *)
(*   SpecJoin      requests handed the promise of the sync in flight;      *)
(*   SpecClose     MemoryIndexManager.close() during a sync or a reindex.  *)
(***************************************************************************)
EXTENDS Integers, Sequences, FiniteSets, Bags, TLC

\* ------------------------------------------------------------------ bounds
MaxEdits == 2
MaxRenameFailures == 1
MaxFallbackCalls == 3
MaxBatchRuns == 2
MaxNow == 4
MaxGetCalls == 3
MaxEmits == 2
MaxTicks == 1
MaxChunks == 3

\* --------------------------------------------------------------- universe
None == "none"

MemPaths == {"memory/a.md"}
SessPaths == {"sessions/s1.jsonl"}
Paths == MemPaths \cup SessPaths

\* opts.sessionKey of search / warmSession, as its characters: absent (<<>>)
\* or a key; and keys that carry blanks.
SessionKeys == {<<>>, <<"k", "1">>}
BlankSessionKeys == {<<" ">>, <<" ", "k", "1">>}

\* File contents: a sequence of lines.  A session transcript only grows
\* (<<"a">> to <<"a","b">>) or is rotated (back to <<"a">>).
Contents == {<<"a">>, <<"a", "b">>}

Suffixes == <<"", "-wal", "-shm">>

\* Error messages that reach runSync's catch block, as their words.
NoMsg == <<>>
MsgEmbedding == <<"openai", "embeddings", "failed:", "429", "rate_limit">>
MsgBatch == <<"openai", "Batch", "failed:", "timeout">>
MsgFetch == <<"fetch", "failed">>
MsgEnoent == <<"ENOENT:", "no", "such", "file", "or", "directory">>
MsgRename == <<"EPERM:", "operation", "not", "permitted,", "rename">>
MsgCreate == <<"No", "API", "key", "found", "for", "provider">>
\* What an embedding call rejects with.
EmbedErrors == {MsgEmbedding, MsgFetch}

\* embedBatchWithRetry: the constants, the batches of texts, what a provider
\* call rejects with, the random factor of the jitter in percent.
EMBEDDING_RETRY_MAX_ATTEMPTS == 3
EMBEDDING_RETRY_BASE_DELAY_MS == 500
EMBEDDING_RETRY_MAX_DELAY_MS == 8000
TextBatches == {<<>>, <<"a">>, <<"a", "b">>}
Msg503 == <<"openai", "embeddings", "failed:", "503", "Service", "Unavailable">>
MsgTooMany == <<"gemini", "embeddings", "failed:", "Too", "Many", "Requests">>
MsgTimeout == <<"memory", "embeddings", "batch", "timed", "out", "after", "120s">>
BatchCallErrors == {MsgEmbedding, Msg503, MsgTooMany, MsgFetch, MsgTimeout}
Jitters == {0, 5, 10, 15, 19}

\* search(): query texts, options, the embedding of the query, and the rows
\* the two scans find, best first (scores in 1/10000).
QueryTexts == {<<" ", " ">>, <<" ", "m", "e", " ">>}
\* An option is <<>> when the caller leaves it out, <<value>> otherwise.
QueryMaxResults == {<<>>, <<0>>, <<1>>, <<2>>}
QueryMinScores == {<<>>, <<0>>, <<5000>>}
QueryVectors == {<<0, 0>>, <<1, 0>>}
VectorRows ==
  {<<>>, <<[id |-> "A", score |-> 9000], [id |-> "B", score |-> 5000]>>,
   <<[id |-> "C", score |-> 5000], [id |-> "B", score |-> 5000]>>}
KeywordRows ==
  {<<>>, <<[id |-> "B", textScore |-> 7000], [id |-> "C", textScore |-> 4000]>>,
   <<[id |-> "A", textScore |-> 10000]>>}

\* embedChunks: the chunks of a call (their hashes; the text of a chunk is
\* its hash's preimage), the cache sizes configured.
ChunkHashes == {"h1", "h2", "h3", "h4"}
ChunkLists == {<<h>> : h \in ChunkHashes} \cup {<<"h1", "h2">>, <<"h1", "h1">>}
CacheMaxEntries == {0, 3}

\* Batch mode: the failure limit and what a remote batch run rejects with.
BATCH_FAILURE_LIMIT == 2
MsgBatchNotAvailable == <<"gemini", "asyncBatchEmbedContent", "not", "available">>
MsgBatchStatus == <<"openai", "batch", "ended", "with", "status", "failed">>
BatchRunErrors == {MsgBatch, MsgBatchNotAvailable, MsgBatchStatus}

\* Provider configurations: the provider (id, model) and the client the
\* provider result carries for it, absent (<<>>) or <<client>>. A client's
\* headers are the entries of an object: pairs with distinct names.
ProviderIds == {"openai", "gemini", "voyage"}
BaseUrls == {"https://api.example/v1", "https://proxy.example/v1"}
HeaderNames == {"Authorization", "X-Goog-Api-Key", "X-Trace"}
HeaderValues == {"v1", "v2"}
HeaderSets ==
  {{}} \cup {{<<n, f[n]>> : n \in HeaderNames} : f \in [HeaderNames -> HeaderValues]}
ModelsOf(id) ==
  {"custom-model"} \cup
    (CASE id = "gemini" -> {"gemini-embedding-001"}
       [] id = "voyage" -> {"voyage-4-large"}
       [] OTHER -> {"text-embedding-3-small"})
ProviderConfigs ==
  UNION {UNION {
    {[id |-> id, model |-> mo, client |-> <<>>]} \cup
    {[id |-> id, model |-> mo,
      client |-> <<[baseUrl |-> u, model |-> mo, headers |-> h]>>] :
        u \in BaseUrls, h \in HeaderSets} : mo \in ModelsOf(id)} : id \in ProviderIds}

\* The event bus: its listeners and the paths emitted, as their characters.
Listeners == {"A", "B"}
\* Session transcripts of the delta thresholds: two files, lines of 512 and
\* of 600 bytes, and the thresholds configured.
TranscriptPaths == {"sessions/s1.jsonl", "sessions/s2.jsonl"}
TranscriptContents == {<<"m512">>, <<"m512", "m600">>, <<"m600">>}
DeltaThresholds ==
  {[deltaBytes |-> 1024, deltaMessages |-> 5], [deltaBytes |-> 1024, deltaMessages |-> 0],
   [deltaBytes |-> 0, deltaMessages |-> 2], [deltaBytes |-> 2048, deltaMessages |-> 2]}

\* The amounts by which the clock advances, in milliseconds: the interval.
TickSteps == {60000}

\* The byte estimates of the chunks handed to buildEmbeddingBatches.
ChunkEstimates == {0, 3000, 5000, 9000}

EmitPaths == {<<>>, <<" ", " ">>, <<" ", "s", "1", " ">>, <<"s", "2">>}

\* MemoryIndexManager.get: the keys `${agentId}:${workspaceDir}:${settings}`
\* the callers ask for.
CacheKeys == {"main:/ws:{}", "ops:/ws:{}"}

\* ------------------------------------------------------------ pure helpers
\* hashText: a collision-free digest, kept as the tagged value it digests.
hashText(x) == <<"sha256", x>>

\* chunkMarkdown followed by the non-empty filter: one chunk per line.
chunkMarkdown(content) ==
  [i \in 1..Len(content) |->
     [startLine |-> i, endLine |-> i, text |-> content[i], hash |-> hashText(content[i])]]

\* buildFileEntry / buildSessionEntry: the entry's hash is the content hash.
EntryHash(content) == hashText(content)
\* The size in bytes of a file: each line ends with a newline; a line is one
\* byte long unless its name tells its length.
LineBytes(line) == CASE line = "m512" -> 512 [] line = "m600" -> 600 [] OTHER -> 1
RECURSIVE BytesUpTo(_, _)
BytesUpTo(content, i) ==
  IF i = 0 THEN 0 ELSE BytesUpTo(content, i - 1) + LineBytes(content[i])
EntrySize(content) == BytesUpTo(content, Len(content))

\* chunk id, indexFile.
ChunkId(source, path, chunk, model) ==
  hashText(<<source, path, chunk.startLine, chunk.endLine, chunk.hash, model>>)

\* /embedding|embeddings|batch/i.test(message): the i flag folds the case,
\* and a word matches when one of the alternatives occurs in it.
LowerCase(word) ==
  CASE word = "Batch" -> "batch" [] word = "No" -> "no" [] word = "API" -> "api"
    [] word = "ENOENT:" -> "enoent:" [] word = "EPERM:" -> "eperm:"
    [] word = "Too" -> "too" [] word = "Many" -> "many" [] word = "Requests" -> "requests"
    [] word = "Service" -> "service" [] word = "Unavailable" -> "unavailable"
    [] word = "Authorization" -> "authorization" [] word = "X-Goog-Api-Key" -> "x-goog-api-key"
    [] word = "X-Trace" -> "x-trace"
    [] word = "asyncBatchEmbedContent" -> "asyncbatchembedcontent"
    [] OTHER -> word
WordMatches(word) == LowerCase(word) \in {"embedding", "embeddings", "batch"}
ShouldFallbackAlways(message) == TRUE
shouldFallbackOnError(message) == \E i \in DOMAIN message : WordMatches(message[i])

\* Providers.
PrimaryProvider == [id |-> "openai", model |-> "text-embedding-3-small"]
DefaultModel(id) ==
  CASE id = "gemini" -> "gemini-embedding-001"
    [] id = "openai" -> "text-embedding-3-small"
    [] id = "voyage" -> "voyage-4-large"
    [] OTHER -> "text-embedding-3-small"

\* computeProviderKey. The entries kept are sorted by name before they are
\* serialised, so the digest depends on the set of entries only; a provider
\* record without a client field is one whose result carried no client.
ClientOf(p) == IF "client" \in DOMAIN p THEN p.client ELSE <<>>
KeptHeader(id, name) ==
  CASE id = "openai" -> LowerCase(name) # "authorization"
    [] id = "gemini" -> LowerCase(name) \notin {"authorization", "x-goog-api-key"}
    [] OTHER -> FALSE
computeProviderKey(p) ==
  IF p.id \in {"openai", "gemini"} /\ ClientOf(p) # <<>>
  THEN LET c == ClientOf(p)[1]
           entries == {e \in c.headers : KeptHeader(p.id, e[1])}
       IN hashText(<<p.id, c.baseUrl, c.model, entries>>)
  ELSE hashText(<<p.id, p.model>>)

\* String.prototype.trim, on a text given as its characters.
TrimLeft(text) ==
  LET spaces == {n \in 0..Len(text) : \A i \in 1..n : text[i] = " "}
      k == CHOOSE n \in spaces : \A m \in spaces : m <= n
  IN SubSeq(text, k + 1, Len(text))
Reverse(text) == [i \in 1..Len(text) |-> text[Len(text) + 1 - i]]
Trim(text) == Reverse(TrimLeft(Reverse(TrimLeft(text))))

\* ------------------------------------------------------------------ Store
\* One database: meta holds zero or one MemoryIndexMeta; files is keyed by
\* path (its primary key); chunks is keyed by id; chunks_vec is keyed by id;
\* chunks_fts has no key, so it is a bag of rows; embedding_cache is a set of
\* rows, its primary key (provider, model, provider_key, hash) kept by the
\* upsert.
EmptyStore ==
  [meta |-> {}, files |-> <<>>, chunks |-> {}, vec |-> {}, fts |-> EmptyBag, cache |-> {}]

Drop(f, S) == [x \in (DOMAIN f) \ S |-> f[x]]
Put(f, k, v) == [x \in (DOMAIN f) \cup {k} |-> IF x = k THEN v ELSE f[x]]
BagDrop(b, Gone(_)) == [r \in {x \in DOMAIN b : ~Gone(x)} |-> b[r]]
BagAdd(b, r) == b (+) SetToBag({r})

RowsOf(st, path, source) == {c \in st.chunks : c.path = path /\ c.source = source}
IdsOf(st, path, source) == {c.id : c \in RowsOf(st, path, source)}

\* readMeta / writeMeta on a store.
readMeta(st) == st.meta
WriteMetaSkipped(st, meta) == st
writeMeta(st, meta) == [st EXCEPT !.meta = {meta}]

\* The rows indexFile inserts for chunk i of a file, after the deletes.
RECURSIVE InsertChunks(_, _, _, _, _, _, _)
InsertChunks(st, path, source, chunks, i, model, vectorReady) ==
  IF i > Len(chunks) THEN st
  ELSE
    LET chunk == chunks[i]
        id == ChunkId(source, path, chunk, model)
        row == [id |-> id, path |-> path, source |-> source, startLine |-> chunk.startLine,
                endLine |-> chunk.endLine, hash |-> chunk.hash, model |-> model]
        st1 == [st EXCEPT
                  !.chunks = {c \in @ : c.id # id} \cup {row},
                  !.vec = IF vectorReady THEN @ \cup {id} ELSE @,
                  !.fts = BagAdd(@, [id |-> id, path |-> path, source |-> source,
                                     model |-> model])]
    IN InsertChunks(st1, path, source, chunks, i + 1, model, vectorReady)

\* indexFile's writes: delete the file's vector rows (only when the vector
\* table is ready), its FTS rows of the active model, its chunks; insert the
\* new chunks; upsert the files row (ON CONFLICT(path)).
IndexFileWrites(st, path, source, hash, content, model, vectorReady) ==
  LET chunks == chunkMarkdown(content)
      st1 == [st EXCEPT
                !.vec = IF vectorReady THEN @ \ IdsOf(st, path, source) ELSE @,
                !.fts = BagDrop(@, LAMBDA r : r.path = path /\ r.source = source
                                               /\ r.model = model)]
      st2 == [st1 EXCEPT !.chunks = @ \ RowsOf(st, path, source)]
      st3 == InsertChunks(st2, path, source, chunks, 1, model, vectorReady)
  IN [st3 EXCEPT !.files = Put(@, path, [source |-> source, hash |-> hash])]

\* The pruning loop that ends syncMemoryFiles / syncSessionFiles.
StalePaths(st, source, activePaths) ==
  {p \in DOMAIN st.files : st.files[p].source = source /\ p \notin activePaths}
DeleteStale(st, source, activePaths, model) ==
  LET stale == StalePaths(st, source, activePaths)
      gone == {c \in st.chunks : c.source = source /\ c.path \in stale}
  IN [st EXCEPT
        !.files = Drop(@, stale),
        !.vec = @ \ {c.id : c \in gone},
        !.chunks = @ \ gone,
        !.fts = BagDrop(@, LAMBDA r : r.source = source /\ r.path \in stale
                                       /\ r.model = model)]

\* ------------------------------------------------------------------ state
VARIABLES
  memFiles,    \* memory files of the workspace: path -> content, for the files that exist
  sessFiles,   \* session transcripts of the agent: path -> content
  settings,    \* the resolved configuration (never changes)
  stores,      \* contents of the live database and of the temporary reindex database
  disk,        \* index files: slot -> suffix -> which database generation the file holds
  mgr,         \* MemoryIndexManager: db, vector, fts, vectorReady
  emb,         \* EmbeddingManager: provider, providerKey, fallbackFrom
  syncer,      \* MemorySyncer fields
  run,         \* the runSync / reindex in flight: position and locals
  search,      \* the search() call in flight: position, its sync() call, the db its scan read
  calls,       \* activateFallback calls made directly on the EmbeddingManager
  obs,         \* counters: runSync executions in flight, file events so far
  backoff,       \* the embedBatchWithRetry invocation in flight: attempt, delayMs, provider calls
  query,       \* what search() is called with and what the scans and the provider give it
  embed,       \* embedChunksInBatches: the clock and what the last call sent and returned
  keys,        \* two provider configurations and the providerKey computed for each
  registry,    \* INDEX_CACHE, the managers constructed, the get() and close() calls in flight
  timers,      \* the clock, the pending timers of the syncer, its close() and its delta batch
  bus,         \* the session transcript event bus: its listeners and what they were called with
  pack         \* buildEmbeddingBatches: the chunks it is given and the batches it returns

vars ==
  <<memFiles, sessFiles, settings, stores, disk, mgr, emb, syncer, run, search, calls, obs,
    backoff, query, embed, keys, registry, timers, bus, pack>>

NoFiles == [s \in 1..3 |-> "none"]
IdleRun ==
  [pc |-> "idle", params |-> [reason |-> None, force |-> FALSE], full |-> FALSE,
   reindexing |-> FALSE, retry |-> FALSE, activated |-> FALSE, shouldSessions |-> FALSE,
   entries |-> <<>>, active |-> {}, pending |-> {}, indexAll |-> FALSE,
   original |-> [ftsAvailable |-> FALSE, vectorAvailable |-> "null", vectorDims |-> 0,
                 vectorReady |-> FALSE],
   originalDbClosed |-> FALSE, nextDims |-> 0,
   swap |-> [phase |-> None, k |-> 1], renameFailures |-> 0, from |-> None,
   absent |-> {}, joined |-> {}, result |-> None, err |-> NoMsg]

W == [stores |-> stores, disk |-> disk, mgr |-> mgr, emb |-> emb, syncer |-> syncer,
      run |-> run, obs |-> obs]
Commit(w) ==
  /\ stores' = w.stores
  /\ disk' = w.disk
  /\ mgr' = w.mgr
  /\ emb' = w.emb
  /\ syncer' = w.syncer
  /\ run' = w.run
  /\ obs' = w.obs

\* The files of a database of generation g: the base file and, when the
\* journal mode leaves them behind (settings.sidecars), -wal and -shm.
DbFiles(g) == [s \in 1..3 |-> IF s = 1 \/ settings.sidecars THEN g ELSE "none"]
RestDisk == [live |-> DbFiles("old"), temp |-> NoFiles, backup |-> NoFiles]

EmbeddingDims(provider) == IF provider.id = "openai" THEN 1536 ELSE 768

\* ------------------------------------------------------- EmbeddingManager
\* resolveBatchConfig: batch mode needs settings.remote.batch.enabled and
\* the client of a provider that has a batch API.
resolveBatchConfig(p) ==
  [enabled |-> settings.remoteBatch /\ p.id \in {"openai", "gemini", "voyage"}]

\* activateFallback, up to its await: the two refusals.
FallbackRefused(e) ==
  \/ settings.fallback = None
  \/ settings.fallback = e.provider.id
  \/ e.fallbackFrom # None

\* activateFallback, after createEmbeddingProvider has resolved.  fallbackFrom
\* is the provider id read before the await.
FallbackSwitch(e, from, reason) ==
  LET p == [id |-> settings.fallback, model |-> DefaultModel(settings.fallback)]
  IN [e EXCEPT !.fallbackFrom = from, !.fallbackReason = reason, !.provider = p,
               !.providerKey = computeProviderKey(p),
               !.batch = resolveBatchConfig(p)]

\* ------------------------------------------------------------ the manager
\* ensureVectorReady(dimensions): memoizes the load, creates the vector table.
ensureVectorReady(m, dimensions) ==
  LET ready == settings.vectorEnabled /\ settings.vecLoadable
  IN [ready |-> ready,
      mgr |-> IF ~settings.vectorEnabled THEN m
              ELSE [m EXCEPT !.vectorReady = TRUE,
                             !.vectorAvailable = IF ready THEN "true" ELSE "false",
                             !.vectorDims = IF ready /\ dimensions > 0 THEN dimensions ELSE @]]

\* runSync's needsFullReindex.
NeedsFullReindex(params, meta, e, vectorReady) ==
  \/ params.force
  \/ meta = {}
  \/ \E m \in meta :
       \/ m.model # e.provider.model
       \/ m.provider # e.provider.id
       \/ m.providerKey # e.providerKey
       \/ m.chunkTokens # settings.chunking.tokens
       \/ m.chunkOverlap # settings.chunking.overlap
       \/ (vectorReady /\ m.vectorDims = 0)

\* shouldSyncSessions.
shouldSyncSessions(params, needsFullReindex, s) ==
  IF params.force THEN TRUE
  ELSE IF params.reason \in {"session-start", "watch"} THEN FALSE
  ELSE IF needsFullReindex THEN TRUE
  ELSE s.sessionsDirty /\ s.sessionsDirtyFiles # {}

\* runSync's promise settles, fulfilled ("ok") or rejected with err; the
\* finally callback of sync() has not run yet.
SyncSettle(w, result, err) ==
  [w EXCEPT
     !.obs.runSyncs = @ - 1,
     !.run = [IdleRun EXCEPT !.pc = "settled", !.params = w.run.params,
                             !.full = w.run.reindexing, !.activated = w.run.activated,
                             !.absent = w.run.absent, !.joined = w.run.joined,
                             !.result = result, !.err = err]]

\* reindex, after the callback and up to the await of swapIndexFiles:
\* writeMeta on this.db (the temporary store), close both databases.
ReindexCommit(w) ==
  LET dims == IF w.mgr.vectorAvailable = "true" /\ w.mgr.vectorDims # 0
              THEN w.mgr.vectorDims ELSE 0
      nextMeta == [model |-> w.emb.provider.model, provider |-> w.emb.provider.id,
                   providerKey |-> w.emb.providerKey,
                   chunkTokens |-> settings.chunking.tokens,
                   chunkOverlap |-> settings.chunking.overlap, vectorDims |-> dims]
  IN [w EXCEPT
        !.stores[w.mgr.db] = writeMeta(@, nextMeta),
        !.mgr.dbOpen = FALSE,
        !.run.originalDbClosed = TRUE,
        !.run.nextDims = dims,
        !.run.pc = "swap",
        !.run.swap = [phase |-> "toBackup", k |-> 1]]

\* performSyncLogic has returned.
FinishLogic(w) ==
  IF w.run.reindexing THEN ReindexCommit(w) ELSE SyncSettle(w, "ok", NoMsg)

\* performSyncLogic after the memory pass (or without one).
AfterMemory(w) ==
  IF w.run.shouldSessions THEN [w EXCEPT !.run.pc = "sessList"]
  ELSE FinishLogic([w EXCEPT !.syncer.sessionsDirty = (w.syncer.sessionsDirtyFiles # {})])

\* performSyncLogic up to its first await.
performSyncLogic(w, params, needsFullReindex) ==
  LET shouldSyncMemory == params.force \/ needsFullReindex \/ w.syncer.dirty
      w1 == [w EXCEPT !.run.params = params, !.run.full = needsFullReindex,
                      !.run.shouldSessions =
                        shouldSyncSessions(params, needsFullReindex, w.syncer)]
  IN IF shouldSyncMemory THEN [w1 EXCEPT !.run.pc = "memList"] ELSE AfterMemory(w1)

\* reindex up to its first await: open the temporary database, point this.db
\* at it, reset the flags, ensureSchema, then the callback.
ReindexBegin(w, params, retry) ==
  LET w1 == [w EXCEPT
               !.run.reindexing = TRUE,
               !.run.retry = retry,
               !.run.originalDbClosed = FALSE,
               !.run.original = [ftsAvailable |-> w.mgr.ftsAvailable,
                                 vectorAvailable |-> w.mgr.vectorAvailable,
                                 vectorDims |-> w.mgr.vectorDims,
                                 vectorReady |-> w.mgr.vectorReady],
               !.stores.temp = EmptyStore,
               !.disk.temp = DbFiles("new"),
               !.mgr.db = "temp",
               !.mgr.vectorReady = FALSE,
               !.mgr.vectorAvailable = "null",
               !.mgr.vectorDims = 0,
               !.mgr.ftsAvailable = TRUE]
  IN performSyncLogic(w1, params, TRUE)

\* runSync's catch block up to the await inside activateFallback.
RunSyncCatch(w, message) ==
  IF shouldFallbackOnError(message) /\ ~FallbackRefused(w.emb)
  THEN [w EXCEPT !.run.pc = "fallback", !.run.err = message, !.run.reindexing = FALSE,
                 !.run.from = w.emb.provider.id]
  ELSE SyncSettle(w, "error", message)

\* An error thrown inside the try block of reindex: close this.db and await
\* removeIndexFiles.  Outside a reindex the error reaches runSync's catch.
Throw(w, message) ==
  IF w.run.reindexing
  THEN [w EXCEPT !.mgr.dbOpen = FALSE, !.run.pc = "cleanup", !.run.err = message]
  ELSE RunSyncCatch(w, message)

\* restoreOriginalState.
RestoreKeepsTempDb(m, original, originalDbClosed) == [m EXCEPT !.dbOpen = FALSE]
RestoreKeepsVectorReady(m, original, originalDbClosed) ==
  [m EXCEPT !.db = "live", !.dbOpen = TRUE]
restoreOriginalState(m, original, originalDbClosed) ==
  [m EXCEPT
     !.db = "live",
     !.dbOpen = TRUE,
     !.ftsAvailable = original.ftsAvailable,
     !.vectorAvailable = IF originalDbClosed THEN "null" ELSE original.vectorAvailable,
     !.vectorDims = original.vectorDims,
     !.vectorReady = IF originalDbClosed THEN FALSE ELSE original.vectorReady]

\* What a database opened at the live path holds, by the base file found
\* there: openDatabaseAtPath creates an empty database when there is none.
OpenAtLivePath(w) ==
  CASE w.disk.live[1] = "none" -> EmptyStore
    [] w.disk.live[1] = "old" -> w.stores.live
    [] OTHER -> w.stores.temp

\* indexFile: embed, ensureVectorReady(sample.length) when there is a
\* non-empty embedding, then the writes on this.db.
indexFile(w, path, source, hash, content) ==
  LET ev == IF Len(chunkMarkdown(content)) > 0
            THEN ensureVectorReady(w.mgr, EmbeddingDims(w.emb.provider))
            ELSE [ready |-> FALSE, mgr |-> w.mgr]
  IN [w EXCEPT
        !.mgr = ev.mgr,
        !.stores[w.mgr.db] =
          IndexFileWrites(@, path, source, hash, content, w.emb.provider.model, ev.ready)]

\* The hash comparison that skips an unchanged file.
SkipNever(st, path, source, hash, needsFullReindex) == FALSE
SkipUnchanged(st, path, source, hash, needsFullReindex) ==
  /\ ~needsFullReindex
  /\ path \in DOMAIN st.files
  /\ st.files[path].source = source
  /\ st.files[path].hash = hash

\* syncSessionFiles after runWithConcurrency: prune, then performSyncLogic
\* clears the session flags.
SessionPassEnd(w) ==
  FinishLogic([w EXCEPT
     !.stores[w.mgr.db] = DeleteStale(@, "sessions", w.run.active, w.emb.provider.model),
     !.syncer.sessionsDirty = FALSE,
     !.syncer.sessionsDirtyFiles = {}])

\* syncMemoryFiles after runWithConcurrency: prune, then dirty = false.
MemoryPassEnd(w) ==
  AfterMemory([w EXCEPT
     !.stores[w.mgr.db] = DeleteStale(@, "memory", w.run.active, w.emb.provider.model),
     !.syncer.dirty = FALSE])

\* resetSessionDelta.
ResetNothing(deltas, path, size) == deltas
resetSessionDelta(deltas, path, size) ==
  IF path \in DOMAIN deltas
  THEN [deltas EXCEPT ![path] = [lastSize |-> size, pendingBytes |-> 0, pendingMessages |-> 0]]
  ELSE deltas

\* sync(): the dedup on this.syncing, else runSync up to its first await
\* (ensureVectorReady memoizes the extension load).
SyncNeverJoins(s) == FALSE
SyncInFlight(s) == s.syncing
sync(w, params) ==
  IF SyncInFlight(w.syncer)
  THEN w
  ELSE [w EXCEPT
          !.syncer.syncing = TRUE,
          !.obs.runSyncs = @ + 1,
          !.mgr.vectorReady = IF settings.vectorEnabled THEN TRUE ELSE @,
          !.run = [IdleRun EXCEPT !.pc = "ensureVector", !.params = params,
                                  !.absent = Paths \ (DOMAIN memFiles \cup DOMAIN sessFiles)]]

\* sync, observed: run.joined holds the parameters of the requests that were
\* handed the promise of the sync in flight.
syncObserved(w, params) ==
  IF SyncInFlight(w.syncer)
  THEN [w EXCEPT !.run.joined = @ \cup {params}]
  ELSE sync(w, params)

\* A request for a sync, observed or not.
requestSync(observed, w, params) ==
  IF observed THEN syncObserved(w, params) ELSE sync(w, params)

\* A sync with reason "session-start" is requested for the key passed:
\* obs.warmRequested holds the keys (other than the absent one) for which
\* that happened, obs.warmRepeated those for which it happened again.
RequestSessionStart(w, sessionKey) ==
  LET w1 == sync(w, [reason |-> "session-start", force |-> FALSE])
  IN IF sessionKey = <<>> THEN w1
     ELSE IF sessionKey \in w.obs.warmRequested
     THEN [w1 EXCEPT !.obs.warmRepeated = @ \cup {sessionKey}]
     ELSE [w1 EXCEPT !.obs.warmRequested = @ \cup {sessionKey}]

\* warmSession.
WarmAlways(w, sessionKey) == RequestSessionStart(w, sessionKey)
warmSession(w, sessionKey) ==
  LET key == Trim(sessionKey)
  IN IF ~settings.sync.onSessionStart THEN w
     ELSE IF key # <<>> /\ key \in w.syncer.sessionWarm THEN w
     ELSE LET w1 == RequestSessionStart(w, sessionKey)
          IN IF key # <<>> THEN [w1 EXCEPT !.syncer.sessionWarm = @ \cup {key}] ELSE w1

\* countNewlines(absPath, start, end): the newline bytes among the bytes
\* start..end-1 of the file.
countNewlines(content, start, end) ==
  IF end <= start THEN 0
  ELSE Cardinality({i \in DOMAIN content :
                      start < BytesUpTo(content, i) /\ BytesUpTo(content, i) <= end})

\* updateSessionDelta for a file that holds content: the state it stores.
updateSessionDelta(state, content) ==
  LET th == settings.sync.sessions
      size == EntrySize(content)
      deltaBytes == IF size - state.lastSize > 0 THEN size - state.lastSize ELSE 0
  IN IF deltaBytes = 0 /\ size = state.lastSize THEN state
     ELSE IF size < state.lastSize
     THEN LET pb == state.pendingBytes + size
              count == th.deltaMessages > 0 /\ (th.deltaBytes <= 0 \/ pb < th.deltaBytes)
          IN [lastSize |-> size, pendingBytes |-> pb,
              pendingMessages |-> state.pendingMessages
                                   + (IF count THEN countNewlines(content, 0, size) ELSE 0)]
     ELSE LET pb == state.pendingBytes + deltaBytes
              count == th.deltaMessages > 0 /\ (th.deltaBytes <= 0 \/ pb < th.deltaBytes)
          IN [lastSize |-> size, pendingBytes |-> pb,
              pendingMessages |-> state.pendingMessages
                                   + (IF count THEN countNewlines(content, state.lastSize, size)
                                      ELSE 0)]

\* processSessionDeltaBatch: bytesHit || messagesHit.
HitAlways(th, d) == TRUE
ThresholdHit(th, d) ==
  LET bytesHit == IF th.deltaBytes <= 0 THEN d.pendingBytes > 0
                  ELSE d.pendingBytes >= th.deltaBytes
      messagesHit == IF th.deltaMessages <= 0 THEN d.pendingMessages > 0
                     ELSE d.pendingMessages >= th.deltaMessages
  IN bytesHit \/ messagesHit

\* The state updateSessionDelta starts from for a file.
DeltaStateOf(s, f) ==
  IF f \in DOMAIN s.sessionDeltas THEN s.sessionDeltas[f]
  ELSE [lastSize |-> 0, pendingBytes |-> 0, pendingMessages |-> 0]

\* processSessionDeltaBatch: the loop over the pending files.
RECURSIVE DeltaLoop(_, _, _)
DeltaLoop(s, pending, shouldSync) ==
  IF pending = {} THEN [syncer |-> s, shouldSync |-> shouldSync]
  ELSE
    LET f == CHOOSE x \in pending : TRUE
        rest == pending \ {f}
    IN IF f \notin DOMAIN sessFiles THEN DeltaLoop(s, rest, shouldSync)
       ELSE
         LET d == updateSessionDelta(DeltaStateOf(s, f), sessFiles[f])
         \* The decrement of the pending counters is applied to the object that
         \* updateSessionDelta returned, which is then dropped: the map keeps d.
         IN IF ~ThresholdHit(settings.sync.sessions, d)
            THEN DeltaLoop([s EXCEPT !.sessionDeltas = Put(@, f, d)], rest, shouldSync)
            ELSE DeltaLoop([s EXCEPT !.sessionDeltas = Put(@, f, d),
                                     !.sessionsDirtyFiles = @ \cup {f},
                                     !.sessionsDirty = TRUE], rest, TRUE)

\* ---------------------------------------------------------------- actions
IdleCall == [st |-> "idle", from |-> None, reason |-> NoMsg]

\* activateFallback(reason) up to its await: return false, or read
\* this.provider.id and await createEmbeddingProvider.
FallbackCallBegin ==
  /\ \E c \in DOMAIN calls, reason \in {MsgEmbedding, MsgBatch} :
       /\ calls[c].st = "idle"
       /\ calls' = [calls EXCEPT ![c] =
                      IF FallbackRefused(emb) THEN [IdleCall EXCEPT !.st = "false"]
                      ELSE [st |-> "creating", from |-> emb.provider.id, reason |-> reason]]
  /\ UNCHANGED <<memFiles, sessFiles, settings, stores, disk, mgr, emb, syncer, run, search, obs,
               backoff, query, embed, keys, registry, timers, bus, pack>>

\* activateFallback after the await: the switch, return true.
FallbackCallEnd ==
  /\ \E c \in DOMAIN calls :
       /\ calls[c].st = "creating"
       /\ emb' = FallbackSwitch(emb, calls[c].from, calls[c].reason)
       /\ calls' = [calls EXCEPT ![c] = [IdleCall EXCEPT !.st = "true"]]
  /\ UNCHANGED <<memFiles, sessFiles, settings, stores, disk, mgr, syncer, run, search, obs,
               backoff, query, embed, keys, registry, timers, bus, pack>>

\* The callbacks of a settled promise run before the event loop takes the
\* next task: no handler starts while sync()'s finally is pending.
TaskTurn == run.pc # "settled"
Env == UNCHANGED <<memFiles, sessFiles, settings, search, calls,
               backoff, query, embed, keys, registry, timers, bus, pack>>

\* A caller: manager.sync({force}).
CallerSyncVia(observed) ==
  /\ TaskTurn
  /\ \E force \in BOOLEAN : Commit(requestSync(observed, W, [reason |-> None, force |-> force]))
  /\ Env

CallerSync == CallerSyncVia(FALSE)
CallerSyncObserved == CallerSyncVia(TRUE)

\* The interval timer.
IntervalFire ==
  /\ TaskTurn
  /\ settings.sync.intervalMinutes > 0
  /\ Commit(sync(W, [reason |-> "interval", force |-> FALSE]))
  /\ Env

\* A memory file is written (with one of the given contents) or removed; the
\* watcher's markDirty.
MemoryFileWritten(contents) ==
  /\ TaskTurn
  /\ obs.edits < MaxEdits
  /\ \E p \in MemPaths :
       \/ \E c \in contents :
            /\ (p \in DOMAIN memFiles => memFiles[p] # c)
            /\ memFiles' = Put(memFiles, p, c)
       \/ /\ p \in DOMAIN memFiles
          /\ memFiles' = Drop(memFiles, {p})
  /\ syncer' = IF settings.sync.watch
               THEN [syncer EXCEPT !.dirty = TRUE, !.watchTimer = TRUE]
               ELSE syncer
  /\ obs' = [obs EXCEPT !.edits = @ + 1]
  /\ UNCHANGED <<sessFiles, settings, stores, disk, mgr, emb, run, search, calls,
               backoff, query, embed, keys, registry, timers, bus, pack>>

MemoryFileEvent == MemoryFileWritten(Contents)

\* A memory file is written, possibly with no line that yields a chunk, or
\* removed.
MemoryFileEventOrBlank == MemoryFileWritten(Contents \cup {<<>>})

\* The watcher reports a change of a memory file whose content is the same
\* (a rewrite, a touch): markDirty.
MemoryFileTouched ==
  /\ TaskTurn
  /\ settings.sync.watch
  /\ DOMAIN memFiles # {}
  /\ syncer' = [syncer EXCEPT !.dirty = TRUE, !.watchTimer = TRUE]
  /\ UNCHANGED <<memFiles, sessFiles, settings, stores, disk, mgr, emb, run, search, calls, obs,
               backoff, query, embed, keys, registry, timers, bus, pack>>

\* scheduleWatchSync's timer fires.
WatchTimerFire ==
  /\ TaskTurn
  /\ syncer.watchTimer
  /\ Commit(sync([W EXCEPT !.syncer.watchTimer = FALSE],
                 [reason |-> "watch", force |-> FALSE]))
  /\ Env

\* The transcript writer appends to (or rotates, or creates) a session file and
\* emits the update; the listener's scheduleSessionDirty.
SessionFileWritten(paths, contents) ==
  /\ TaskTurn
  /\ obs.edits < MaxEdits
  /\ \E p \in paths, c \in contents :
       /\ (p \in DOMAIN sessFiles => sessFiles[p] # c)
       /\ sessFiles' = Put(sessFiles, p, c)
       /\ syncer' = [syncer EXCEPT !.sessionPendingFiles = @ \cup {p},
                                   !.sessionWatchTimer = TRUE]
  /\ obs' = [obs EXCEPT !.edits = @ + 1]
  /\ UNCHANGED <<memFiles, settings, stores, disk, mgr, emb, run, search, calls,
               backoff, query, embed, keys, registry, timers, bus, pack>>

SessionFileEvent == SessionFileWritten(SessPaths, Contents)
SessionTranscriptEvent == SessionFileWritten(TranscriptPaths, TranscriptContents)

\* An update is emitted for a session file that has not changed since the
\* last one was handled.
SessionFileNotified ==
  /\ TaskTurn
  /\ \E p \in DOMAIN sessFiles :
       syncer' = [syncer EXCEPT !.sessionPendingFiles = @ \cup {p},
                                !.sessionWatchTimer = TRUE]
  /\ syncer' # syncer
  /\ UNCHANGED <<memFiles, sessFiles, settings, stores, disk, mgr, emb, run, search, calls, obs,
               backoff, query, embed, keys, registry, timers, bus, pack>>

\* A session transcript is deleted; nothing is emitted.
SessionFileRemoved ==
  /\ TaskTurn
  /\ obs.edits < MaxEdits
  /\ \E p \in DOMAIN sessFiles : sessFiles' = Drop(sessFiles, {p})
  /\ obs' = [obs EXCEPT !.edits = @ + 1]
  /\ UNCHANGED <<memFiles, settings, stores, disk, mgr, emb, syncer, run, search, calls,
               backoff, query, embed, keys, registry, timers, bus, pack>>

\* The session debounce timer fires: processSessionDeltaBatch.
SessionTimerFireVia(observed) ==
  /\ TaskTurn
  /\ syncer.sessionWatchTimer
  /\ LET r == DeltaLoop([syncer EXCEPT !.sessionWatchTimer = FALSE,
                                       !.sessionPendingFiles = {}],
                        syncer.sessionPendingFiles, FALSE)
         w == [W EXCEPT !.syncer = r.syncer]
     IN Commit(IF r.shouldSync
               THEN requestSync(observed, w, [reason |-> "session-delta", force |-> FALSE])
               ELSE w)
  /\ Env

SessionTimerFire == SessionTimerFireVia(FALSE)
SessionTimerFireObserved == SessionTimerFireVia(TRUE)

\* manager.warmSession(sessionKey).
WarmSessionOf(sessionKeys) ==
  /\ TaskTurn
  /\ \E key \in sessionKeys : Commit(warmSession(W, key))
  /\ Env

WarmSession == WarmSessionOf(SessionKeys)
WarmSessionBlank == WarmSessionOf(BlankSessionKeys)

\* opts?.minScore ?? settings.query.minScore, and the same for maxResults.
MinScoreOf(q) == IF q.minScore = <<>> THEN settings.minScore ELSE q.minScore[1]
MaxResultsOf(q) == IF q.maxResults = <<>> THEN settings.maxResults ELSE q.maxResults[1]

\* Math.min(200, Math.max(1, Math.floor(maxResults * hybrid.candidateMultiplier)))
Candidates(maxResults) ==
  LET wanted == maxResults * settings.hybrid.candidateMultiplier
      atLeastOne == IF wanted > 1 THEN wanted ELSE 1
  IN IF atLeastOne < 200 THEN atLeastOne ELSE 200

\* The scans of manager-search return at most limit rows.
ScanRows(rows, limit) == SubSeq(rows, 1, IF limit < Len(rows) THEN limit ELSE Len(rows))

\* Array.prototype.filter and slice(0, n).
FilterMinScore(entries, minScore) == SelectSeq(entries, LAMBDA e : e.score >= minScore)
SliceNothing(entries, n) == entries
Slice(entries, n) ==
  LET end == IF n < 0 THEN Len(entries) + n ELSE IF n < Len(entries) THEN n ELSE Len(entries)
  IN SubSeq(entries, 1, IF end < 0 THEN 0 ELSE end)

\* mergeHybridResults of hybrid.js: the union of both lists by id, the
\* combined score of each id (a missing side counts 0), sorted by descending
\* score.  Scores are in 1/10000, weights in percent.
RECURSIVE SortByScore(_)
SortByScore(entries) ==
  IF entries = <<>> THEN <<>>
  ELSE LET best == CHOOSE i \in DOMAIN entries :
                     /\ \A j \in DOMAIN entries : entries[j].score <= entries[i].score
                     /\ \A j \in 1..(i - 1) : entries[j].score < entries[i].score
       IN <<entries[best]>> \o
          SortByScore([k \in 1..(Len(entries) - 1) |->
                         IF k < best THEN entries[k] ELSE entries[k + 1]])
HybridFusion(vector, keyword, vectorWeight, textWeight) ==
  LET vIds == {vector[i].id : i \in DOMAIN vector}
      VScore(id) == IF id \in vIds
                    THEN vector[CHOOSE i \in DOMAIN vector : vector[i].id = id].vectorScore
                    ELSE 0
      TScore(id) == IF \E i \in DOMAIN keyword : keyword[i].id = id
                    THEN keyword[CHOOSE i \in DOMAIN keyword : keyword[i].id = id].textScore
                    ELSE 0
      ids == [i \in DOMAIN vector |-> vector[i].id] \o
             [i \in DOMAIN SelectSeq(keyword, LAMBDA r : r.id \notin vIds) |->
                SelectSeq(keyword, LAMBDA r : r.id \notin vIds)[i].id]
  IN SortByScore([i \in DOMAIN ids |->
                    [id |-> ids[i],
                     score |-> (vectorWeight * VScore(ids[i])
                                + textWeight * TScore(ids[i])) \div 100]])

\* MemoryIndexManager.mergeHybridResults: the vector rows' score becomes
\* vectorScore, the keyword rows keep textScore.
MergeVectorOnly(vector, keyword, vectorWeight, textWeight) == vector
mergeHybridResults(vector, keyword, vectorWeight, textWeight) ==
  HybridFusion([i \in DOMAIN vector |-> [id |-> vector[i].id, vectorScore |-> vector[i].score]],
               [i \in DOMAIN keyword |-> [id |-> keyword[i].id,
                                          textScore |-> keyword[i].textScore]],
               vectorWeight, textWeight)

\* manager.search(query, opts) up to the await of the query embedding:
\* warmSession, the onSearch sync, the trim (an empty query returns []), the
\* keyword scan of this.db; an error of the scan is caught and gives no rows.
ReadsDb(m) == IF m.dbOpen THEN m.db ELSE "closed"
IdleSearch ==
  [pc |-> "idle", joined |-> FALSE, keyword |-> None, keywordResults |-> <<>>,
   vectorResults |-> <<>>, out |-> "ok", results |-> <<>>]
SearchBegin(scanned) ==
  /\ TaskTurn
  /\ search.pc = "idle"
  /\ \E key \in SessionKeys :
       LET w1 == warmSession(W, key)
           onSearch == settings.sync.onSearch /\ (w1.syncer.dirty \/ w1.syncer.sessionsDirty)
           w2 == IF onSearch THEN sync(w1, [reason |-> "search", force |-> FALSE]) ELSE w1
           scan == settings.hybrid.enabled /\ mgr.ftsAvailable /\ scanned
       IN /\ Commit(w2)
          /\ search' =
               IF Trim(query.text) = <<>> THEN IdleSearch
               ELSE [IdleSearch EXCEPT
                       !.pc = "embedQuery",
                       !.joined = onSearch /\ SyncInFlight(w1.syncer),
                       !.keyword = ReadsDb(mgr),
                       !.keywordResults =
                          IF scan THEN ScanRows(query.keywordRows,
                                                Candidates(MaxResultsOf(query)))
                          ELSE <<>>]
  /\ UNCHANGED <<memFiles, sessFiles, settings, calls, backoff, query, embed, keys, registry, timers, bus, pack>>

SearchKeyword == SearchBegin(TRUE)

\* The keyword scan throws: .catch(() => []).
SearchKeywordFails ==
  /\ settings.hybrid.enabled
  /\ Trim(query.text) # <<>>
  /\ SearchBegin(FALSE)

\* search() after embedQueryWithTimeout has resolved: the vector scan of
\* this.db when the query vector is not all zero (an error of the scan is
\* caught and gives no rows), the merge, the filter and the truncation.
SearchEnd(scanned) ==
  /\ TaskTurn
  /\ search.pc = "embedQuery"
  /\ LET hasVector == \E i \in DOMAIN query.vec : query.vec[i] # 0
         vectorResults == IF hasVector /\ scanned
                          THEN ScanRows(query.vectorRows, Candidates(MaxResultsOf(query)))
                          ELSE <<>>
         merged == IF settings.hybrid.enabled
                   THEN mergeHybridResults(vectorResults, search.keywordResults,
                                           settings.hybrid.vectorWeight,
                                           settings.hybrid.textWeight)
                   ELSE [i \in DOMAIN vectorResults |->
                           [id |-> vectorResults[i].id, score |-> vectorResults[i].score]]
     IN search' = [search EXCEPT
                     !.pc = "idle", !.joined = FALSE, !.keyword = None,
                     !.vectorResults = vectorResults,
                     !.out = "ok",
                     !.results = Slice(FilterMinScore(merged, MinScoreOf(query)),
                                       MaxResultsOf(query))]
  /\ UNCHANGED <<memFiles, sessFiles, settings, stores, disk, mgr, emb, syncer, run, calls, obs,
                 backoff, query, embed, keys, registry, timers, bus, pack>>

SearchVector == SearchEnd(TRUE)

\* The vector scan throws: .catch(() => []).
SearchVectorFails ==
  /\ \E i \in DOMAIN query.vec : query.vec[i] # 0
  /\ SearchEnd(FALSE)

\* embedQueryWithTimeout rejects (the provider's error, or the timeout):
\* search() has no handler for it and rejects.
SearchEmbedFails ==
  /\ TaskTurn
  /\ search.pc = "embedQuery"
  /\ search' = [search EXCEPT !.pc = "idle", !.joined = FALSE, !.keyword = None,
                              !.out = "error", !.results = <<>>]
  /\ UNCHANGED <<memFiles, sessFiles, settings, stores, disk, mgr, emb, syncer, run, calls, obs,
                 backoff, query, embed, keys, registry, timers, bus, pack>>

\* runSync after ensureVectorReady: readMeta, needsFullReindex, then reindex
\* or performSyncLogic up to the first await.
RunSyncStart ==
  /\ run.pc = "ensureVector"
  /\ LET ev == ensureVectorReady(mgr, 0)
         w == [W EXCEPT !.mgr = ev.mgr]
         meta == readMeta(stores[mgr.db])
     IN Commit(IF NeedsFullReindex(run.params, meta, emb, ev.ready)
               THEN ReindexBegin(w, run.params, FALSE)
               ELSE performSyncLogic(w, run.params, FALSE))
  /\ Env

\* syncMemoryFiles: listMemoryFiles and buildFileEntry have resolved.
SyncMemoryFilesList ==
  /\ run.pc = "memList"
  /\ LET w == [W EXCEPT
                 !.run.pc = "memTasks",
                 !.run.entries = [p \in DOMAIN memFiles |-> EntryHash(memFiles[p])],
                 !.run.active = DOMAIN memFiles,
                 !.run.pending = DOMAIN memFiles]
     IN Commit(IF DOMAIN memFiles = {} THEN MemoryPassEnd(w) ELSE w)
  /\ Env

\* One task of syncMemoryFiles.  indexFile reads the file again; the
\* embedding call may fail.
MemoryTask ==
  /\ run.pc = "memTasks"
  /\ \E p \in run.pending :
       LET done(w) == LET w1 == [w EXCEPT !.run.pending = @ \ {p}]
                      IN IF w1.run.pending = {} THEN MemoryPassEnd(w1) ELSE w1
       IN IF SkipUnchanged(stores[mgr.db], p, "memory", run.entries[p], run.full)
          THEN Commit(done(W))
          ELSE IF p \notin DOMAIN memFiles
          THEN Commit(Throw(W, MsgEnoent))
          ELSE Commit(done(indexFile(W, p, "memory", run.entries[p], memFiles[p])))
  /\ Env

\* One task of syncMemoryFiles whose embedding call rejects.
MemoryTaskFails ==
  /\ run.pc = "memTasks"
  /\ \E p \in run.pending, message \in EmbedErrors :
       /\ ~SkipUnchanged(stores[mgr.db], p, "memory", run.entries[p], run.full)
       /\ p \in DOMAIN memFiles
       /\ Commit(Throw(W, message))
  /\ Env

\* syncSessionFiles: listSessionFilesForAgent has resolved.
SyncSessionFilesList ==
  /\ run.pc = "sessList"
  /\ LET w == [W EXCEPT
                 !.run.pc = "sessTasks",
                 !.run.active = DOMAIN sessFiles,
                 !.run.pending = DOMAIN sessFiles,
                 !.run.indexAll = (run.full \/ syncer.sessionsDirtyFiles = {})]
     IN Commit(IF DOMAIN sessFiles = {} THEN SessionPassEnd(w) ELSE w)
  /\ Env

\* One task of syncSessionFiles.
SessionSkipped(p) ==
  \/ ~run.indexAll /\ p \notin syncer.sessionsDirtyFiles
  \/ p \notin DOMAIN sessFiles
SessionTask ==
  /\ run.pc = "sessTasks"
  /\ \E p \in run.pending :
       LET done(w) == LET w1 == [w EXCEPT !.run.pending = @ \ {p}]
                      IN IF w1.run.pending = {} THEN SessionPassEnd(w1) ELSE w1
           reset(w) == [w EXCEPT !.syncer.sessionDeltas =
                          resetSessionDelta(@, p, EntrySize(sessFiles[p]))]
       IN IF SessionSkipped(p)
          THEN Commit(done(W))
          ELSE IF SkipUnchanged(stores[mgr.db], p, "sessions", EntryHash(sessFiles[p]), run.full)
          THEN Commit(done(reset(W)))
          ELSE Commit(done(reset(indexFile(W, p, "sessions", EntryHash(sessFiles[p]),
                                           sessFiles[p]))))
  /\ Env

\* One task of syncSessionFiles whose embedding call rejects.
SessionTaskFails ==
  /\ run.pc = "sessTasks"
  /\ \E p \in run.pending, message \in EmbedErrors :
       /\ ~SessionSkipped(p)
       /\ ~SkipUnchanged(stores[mgr.db], p, "sessions", EntryHash(sessFiles[p]), run.full)
       /\ Commit(Throw(W, message))
  /\ Env

\* swapIndexFiles / moveIndexFiles: one fs.rename.  The sidecar files (-wal,
\* -shm) may or may not exist; ENOENT is skipped, any other error is thrown.
SwapSource(phase) ==
  CASE phase = "toBackup" -> "live" [] phase = "toLive" -> "temp" [] OTHER -> "backup"
SwapTarget(phase) ==
  CASE phase = "toBackup" -> "backup" [] OTHER -> "live"

\* After the rename of suffix k: the next suffix, the next move, or the end.
SwapAdvance(w) ==
  LET sw == w.run.swap
  IN IF sw.k < Len(Suffixes) THEN [w EXCEPT !.run.swap.k = sw.k + 1]
     ELSE CASE sw.phase = "toBackup" -> [w EXCEPT !.run.swap = [phase |-> "toLive", k |-> 1]]
            [] sw.phase = "toLive" -> [w EXCEPT !.run.pc = "removeBackup"]
            [] OTHER -> Throw(w, MsgRename)

\* A rename failed with an error other than ENOENT.
SwapFailed(w) ==
  LET w1 == [w EXCEPT !.run.renameFailures = @ + 1]
  IN IF w.run.swap.phase = "toLive"
     THEN [w1 EXCEPT !.run.swap = [phase |-> "restore", k |-> 1]]
     ELSE Throw(w1, MsgRename)

SwapRename ==
  /\ run.pc = "swap"
  /\ LET src == SwapSource(run.swap.phase)
         tgt == SwapTarget(run.swap.phase)
         k == run.swap.k
         f == disk[src][k]
     IN Commit(SwapAdvance(IF f = "none" THEN W
                           ELSE [W EXCEPT !.disk[tgt][k] = f, !.disk[src][k] = "none"]))
  /\ Env

\* fs.rename of an existing file fails with an error other than ENOENT.
SwapRenameFails ==
  /\ run.pc = "swap"
  /\ disk[SwapSource(run.swap.phase)][run.swap.k] # "none"
  /\ run.renameFailures < MaxRenameFailures
  /\ Commit(SwapFailed(W))
  /\ Env

\* swapIndexFiles' removeIndexFiles(backup) has resolved: reindex reopens the
\* database at the live path; runSync returns.
ReindexReopen ==
  /\ run.pc = "removeBackup"
  /\ Commit(SyncSettle(
       [W EXCEPT
          !.stores.live = OpenAtLivePath(W),
          !.stores.temp = EmptyStore,
          !.disk = RestDisk,
          !.mgr.db = "live",
          !.mgr.dbOpen = TRUE,
          !.mgr.vectorReady = FALSE,
          !.mgr.vectorAvailable = "null",
          !.mgr.ftsAvailable = TRUE,
          !.mgr.vectorDims = run.nextDims],
       "ok", NoMsg))
  /\ Env

\* reindex's catch block after removeIndexFiles(temp): restoreOriginalState and
\* rethrow, to runSync's catch block or, from the retry inside it, to the caller.
ReindexCleanup ==
  /\ run.pc = "cleanup"
  /\ LET w == [W EXCEPT
                 !.stores.live = IF run.originalDbClosed THEN OpenAtLivePath(W) ELSE @,
                 !.stores.temp = EmptyStore,
                 !.disk = RestDisk,
                 !.mgr = restoreOriginalState(mgr, run.original, run.originalDbClosed),
                 !.run.reindexing = FALSE]
     IN Commit(IF run.retry THEN SyncSettle(w, "error", run.err)
               ELSE RunSyncCatch(w, run.err))
  /\ Env

\* activateFallback after createEmbeddingProvider; runSync then retries with
\* a forced full reindex.
FallbackActivated ==
  /\ run.pc = "fallback"
  /\ LET w == [W EXCEPT !.emb = FallbackSwitch(emb, run.from, run.err),
                        !.run.activated = TRUE]
         reason == IF run.params.reason = None THEN "fallback" ELSE run.params.reason
     IN Commit(ReindexBegin(w, [reason |-> reason, force |-> TRUE], TRUE))
  /\ Env

\* createEmbeddingProvider rejects inside activateFallback: the rejection
\* leaves runSync's catch block in place of the sync's error.
FallbackCreateFails ==
  /\ run.pc = "fallback"
  /\ Commit(SyncSettle(W, "error", MsgCreate))
  /\ Env

\* sync()'s finally: this.syncing = null; the callers' promises settle.
SyncReturn ==
  /\ run.pc = "settled"
  /\ Commit([W EXCEPT !.syncer.syncing = FALSE, !.run = IdleRun])
  /\ Env

\* ---------------------------------------------------- embedBatchWithRetry
\* isRetryableEmbeddingError:
\* /(rate[_ ]limit|too many requests|429|resource has been exhausted|5\d\d|cloudflare)/i
HasPhrase(message, phrase) ==
  \E i \in 0..(Len(message) - Len(phrase)) :
    \A j \in 1..Len(phrase) : LowerCase(message[i + j]) = phrase[j]
isRetryableEmbeddingError(message) ==
  \/ \E i \in DOMAIN message :
       LowerCase(message[i]) \in {"rate_limit", "429", "cloudflare", "500", "502", "503", "529"}
  \/ HasPhrase(message, <<"rate", "limit">>)
  \/ HasPhrase(message, <<"too", "many", "requests">>)
  \/ HasPhrase(message, <<"resource", "has", "been", "exhausted">>)

\* Math.round(delayMs * (1 + Math.random() * 0.2)), the random factor taken
\* in percent, capped at EMBEDDING_RETRY_MAX_DELAY_MS.
RetryWaitMs(delayMs, jitter) ==
  LET rounded == (delayMs * (100 + jitter) + 50) \div 100
  IN IF rounded < EMBEDDING_RETRY_MAX_DELAY_MS THEN rounded ELSE EMBEDDING_RETRY_MAX_DELAY_MS

IdleRetry ==
  [pc |-> "idle", texts |-> <<>>, attempt |-> 0, delayMs |-> EMBEDDING_RETRY_BASE_DELAY_MS,
   calls |-> 0, warned |-> 0, err |-> NoMsg]

\* The frame of an EmbeddingManager step that touches no Store and no syncer.
IndexUnchanged ==
  UNCHANGED <<memFiles, sessFiles, settings, stores, disk, mgr, syncer, run, search, obs>>

\* embedBatchWithRetry(texts) up to its first await: nothing to embed, or the
\* first provider.embedBatch call.
EmbedBatchStart ==
  /\ backoff.pc \in {"idle", "resolved", "rejected"}
  /\ \E texts \in TextBatches :
       backoff' = IF texts = <<>> THEN [IdleRetry EXCEPT !.pc = "resolved"]
                ELSE [IdleRetry EXCEPT !.pc = "calling", !.texts = texts, !.calls = 1]
  /\ IndexUnchanged
  /\ UNCHANGED <<emb, calls, query, embed, keys, registry, timers, bus, pack>>

\* The provider call resolves within the timeout.
EmbedBatchResolves ==
  /\ backoff.pc = "calling"
  /\ backoff' = [backoff EXCEPT !.pc = "resolved"]
  /\ IndexUnchanged
  /\ UNCHANGED <<emb, calls, query, embed, keys, registry, timers, bus, pack>>

\* The provider call rejects, or the timeout does: the catch block rethrows,
\* or sleeps waitMs before the next attempt.
EmbedBatchRejects ==
  /\ backoff.pc = "calling"
  /\ \E message \in BatchCallErrors, jitter \in Jitters :
       backoff' = IF ~isRetryableEmbeddingError(message)
                     \/ backoff.attempt >= EMBEDDING_RETRY_MAX_ATTEMPTS
                THEN [backoff EXCEPT !.pc = "rejected", !.err = message]
                ELSE [backoff EXCEPT !.pc = "waiting",
                                   !.warned = RetryWaitMs(backoff.delayMs, jitter),
                                   !.delayMs = @ * 2,
                                   !.attempt = @ + 1]
  /\ IndexUnchanged
  /\ UNCHANGED <<emb, calls, query, embed, keys, registry, timers, bus, pack>>

\* The sleep ends: the loop calls provider.embedBatch again.
RetryTimerFires ==
  /\ backoff.pc = "waiting"
  /\ backoff' = [backoff EXCEPT !.pc = "calling", !.calls = @ + 1]
  /\ IndexUnchanged
  /\ UNCHANGED <<emb, calls, query, embed, keys, registry, timers, bus, pack>>

\* A search for "me" with no options, over scans that find nothing.
IdleQuery ==
  [text |-> <<"m", "e">>, maxResults |-> <<>>, minScore |-> <<>>, vec |-> <<1, 0>>,
   keywordRows |-> <<>>, vectorRows |-> <<>>]
IdleEmbed == [now |-> 1, chunks |-> <<>>, sent |-> <<>>, result |-> <<>>, out |-> None]
\* Two provider configurations and the key computed for each.
NoKeys ==
  [pc |-> "idle", a |-> PrimaryProvider, b |-> PrimaryProvider,
   keyA |-> computeProviderKey(PrimaryProvider),
   keyB |-> computeProviderKey(PrimaryProvider)]
\* ------------------------------------------------------------------ timers
\* The runtime's timers and the syncer's handles on them.  pending holds the
\* timers that were set and have neither fired nor been cleared; a handle is
\* a timer's id, 0 for null.  batches holds the files of each
\* processSessionDeltaBatch that has taken its files and awaits fs.stat;
\* closing says that close() awaits watcher.close().
SESSION_DIRTY_DEBOUNCE_MS == 5000
IdleTimers ==
  [now |-> 0, ticks |-> 0, pending |-> {}, watchTimer |-> 0, sessionWatchTimer |-> 0,
   intervalTimer |-> 0, lastWatchEvent |-> 0, batches |-> <<>>, closing |-> FALSE]

NewTimerId(t) ==
  LET ids == {0} \cup {x.id : x \in t.pending}
  IN 1 + CHOOSE i \in ids : \A j \in ids : j <= i
setTimer(t, channel, ms) ==
  [t EXCEPT !.pending = @ \cup {[id |-> NewTimerId(t), channel |-> channel, due |-> t.now + ms]}]
clearTimer(t, id) == [t EXCEPT !.pending = {x \in @ : x.id # id}]
TimersDue(channel) == {x \in timers.pending : x.channel = channel /\ timers.now >= x.due}

\* ensureIntervalSync, called by the constructor.
IntervalMs == settings.sync.intervalMinutes * 60 * 1000
ensureIntervalSync(t) ==
  IF settings.sync.intervalMinutes <= 0 \/ t.intervalTimer # 0 THEN t
  ELSE [setTimer(t, "interval", IntervalMs) EXCEPT !.intervalTimer = NewTimerId(t)]

\* scheduleWatchSync, on the syncer s and the timers t of c.
ScheduleWithoutClear(c) ==
  IF ~settings.sync.watch THEN c
  ELSE [s |-> [c.s EXCEPT !.watchTimer = TRUE],
        t |-> [setTimer(c.t, "watch", settings.sync.watchDebounceMs)
                 EXCEPT !.watchTimer = NewTimerId(c.t)]]
scheduleWatchSync(c) ==
  IF ~settings.sync.watch THEN c
  ELSE LET t1 == clearTimer(c.t, c.t.watchTimer)
       IN [s |-> [c.s EXCEPT !.watchTimer = TRUE],
           t |-> [setTimer(t1, "watch", settings.sync.watchDebounceMs)
                    EXCEPT !.watchTimer = NewTimerId(t1)]]

\* scheduleSessionDirty.
scheduleSessionDirty(c, sessionFile) ==
  LET s1 == [c.s EXCEPT !.sessionPendingFiles = @ \cup {sessionFile}]
  IN IF c.t.sessionWatchTimer # 0 THEN [s |-> s1, t |-> c.t]
     ELSE [s |-> [s1 EXCEPT !.sessionWatchTimer = TRUE],
           t |-> [setTimer(c.t, "session", SESSION_DIRTY_DEBOUNCE_MS)
                    EXCEPT !.sessionWatchTimer = NewTimerId(c.t)]]

\* Array.from(this.sessionPendingFiles).
RECURSIVE ArrayFrom(_)
ArrayFrom(set) ==
  IF set = {} THEN <<>>
  ELSE LET x == CHOOSE y \in set : TRUE IN <<x>> \o ArrayFrom(set \ {x})

TimerEnv == UNCHANGED <<memFiles, sessFiles, settings, search, calls,
                        backoff, query, embed, keys, registry, bus, pack>>

\* Time passes.
Tick ==
  /\ timers.ticks < MaxTicks
  /\ \E d \in TickSteps : timers' = [timers EXCEPT !.now = @ + d, !.ticks = @ + 1]
  /\ UNCHANGED <<memFiles, sessFiles, settings, stores, disk, mgr, emb, syncer, run, search,
               calls, obs, backoff, query, embed, keys, registry, bus, pack>>

\* The watcher emits add, change or unlink: markDirty.
WatcherEvent ==
  /\ TaskTurn
  /\ syncer.watcher
  /\ LET c == scheduleWatchSync([s |-> [syncer EXCEPT !.dirty = TRUE],
                                 t |-> [timers EXCEPT !.lastWatchEvent = timers.now]])
     IN syncer' = c.s /\ timers' = c.t
  /\ UNCHANGED <<memFiles, sessFiles, settings, stores, disk, mgr, emb, run, search,
               calls, obs, backoff, query, embed, keys, registry, bus, pack>>

\* The watch timer's callback.
WatchTimerFires ==
  /\ TaskTurn
  /\ \E x \in TimersDue("watch") :
       /\ timers' = [timers EXCEPT !.pending = @ \ {x}, !.watchTimer = 0]
       /\ Commit(sync([W EXCEPT !.syncer.watchTimer = FALSE],
                      [reason |-> "watch", force |-> FALSE]))
  /\ TimerEnv

\* The interval timer's callback; setInterval keeps the timer.
IntervalTimerFires ==
  /\ TaskTurn
  /\ \E x \in TimersDue("interval") :
       /\ timers' = [timers EXCEPT !.pending = (@ \ {x}) \cup {[x EXCEPT !.due = @ + IntervalMs]}]
       /\ Commit(sync(W, [reason |-> "interval", force |-> FALSE]))
  /\ TimerEnv

\* A session transcript update reaches the listener of ensureSessionListener;
\* the transcript it names may have been removed since it was written.
SessionUpdate ==
  /\ TaskTurn
  /\ syncer.sessionUnsubscribe
  /\ \E p \in TranscriptPaths :
       LET c == IF syncer.closed THEN [s |-> syncer, t |-> timers]
                ELSE scheduleSessionDirty([s |-> syncer, t |-> timers], p)
       IN syncer' = c.s /\ timers' = c.t
  /\ UNCHANGED <<memFiles, sessFiles, settings, stores, disk, mgr, emb, run, search,
               calls, obs, backoff, query, embed, keys, registry, bus, pack>>

\* The session timer's callback: processSessionDeltaBatch up to its first
\* await.
SessionTimerFires ==
  /\ TaskTurn
  /\ \E x \in TimersDue("session") :
       /\ timers' = [timers EXCEPT
                       !.pending = @ \ {x}, !.sessionWatchTimer = 0,
                       !.batches = IF syncer.sessionPendingFiles = {} THEN @
                                   ELSE Append(@, ArrayFrom(syncer.sessionPendingFiles))]
       /\ syncer' = [syncer EXCEPT !.sessionWatchTimer = FALSE, !.sessionPendingFiles = {}]
  /\ UNCHANGED <<memFiles, sessFiles, settings, stores, disk, mgr, emb, run, search,
               calls, obs, backoff, query, embed, keys, registry, bus, pack>>

\* processSessionDeltaBatch after its awaits: the loop over the files it
\* took, then the sync.
SessionBatchEnd ==
  /\ TaskTurn
  /\ timers.batches # <<>>
  /\ LET files == Head(timers.batches)
         r == DeltaLoop(syncer, {files[i] : i \in DOMAIN files}, FALSE)
         w == [W EXCEPT !.syncer = r.syncer]
     IN Commit(IF r.shouldSync
               THEN sync(w, [reason |-> "session-delta", force |-> FALSE])
               ELSE w)
  /\ timers' = [timers EXCEPT !.batches = Tail(@)]
  /\ TimerEnv

\* MemorySyncer.close() up to `await this.watcher.close()`.
SyncerCloseBegin ==
  /\ TaskTurn
  /\ ~syncer.closed
  /\ syncer' = [syncer EXCEPT !.closed = TRUE, !.watchTimer = FALSE,
                              !.sessionWatchTimer = FALSE,
                              !.sessionUnsubscribe = IF syncer.watcher THEN @ ELSE FALSE]
  /\ timers' = [clearTimer(clearTimer(clearTimer(timers, timers.watchTimer),
                                      timers.sessionWatchTimer), timers.intervalTimer)
                  EXCEPT !.watchTimer = 0, !.sessionWatchTimer = 0, !.intervalTimer = 0,
                         !.closing = syncer.watcher]
  /\ UNCHANGED <<memFiles, sessFiles, settings, stores, disk, mgr, emb, run, search,
               calls, obs, backoff, query, embed, keys, registry, bus, pack>>

\* close() after the await: the watcher is dropped and the session listener
\* unsubscribed.
SyncerCloseEnd ==
  /\ TaskTurn
  /\ timers.closing
  /\ syncer' = [syncer EXCEPT !.watcher = FALSE, !.sessionUnsubscribe = FALSE]
  /\ timers' = [timers EXCEPT !.closing = FALSE]
  /\ UNCHANGED <<memFiles, sessFiles, settings, stores, disk, mgr, emb, run, search,
               calls, obs, backoff, query, embed, keys, registry, bus, pack>>


\* buildEmbeddingBatches has not been called.
NoPack == [pc |-> "idle", chunks |-> <<>>, batches |-> <<>>]

\* The event bus with no listener; log holds, for every emit so far, the
\* path emitted and the listeners subscribed at that time.
EmptyBus == [subscribed |-> {}, received |-> [l \in Listeners |-> <<>>], log |-> <<>>]

\* INDEX_CACHE and what MemoryIndexManager.get and close() have done so far:
\* cache maps a key to the manager stored under it (0: no entry), managers
\* are numbered in the order they are constructed, gets are the calls of
\* get() in the order they were made, and evictions records, for every
\* INDEX_CACHE.delete that removed an entry, <<the manager closing, the
\* manager the entry held>>.
EmptyRegistry ==
  [cache |-> [k \in CacheKeys |-> 0], managers |-> <<>>, gets |-> <<>>, evictions |-> {}]

\* ------------------------------------------------------------- batch mode
\* isBatchTimeoutError: /timed out|timeout/i
isBatchTimeoutError(message) ==
  \/ \E i \in DOMAIN message : LowerCase(message[i]) = "timeout"
  \/ HasPhrase(message, <<"timed", "out">>)

\* /asyncBatchEmbedContent not available/i, runBatchWithFallback.
ForceDisable(message) == HasPhrase(message, <<"asyncbatchembedcontent", "not", "available">>)

\* resetBatchFailureCount, under the failure lock.
resetBatchFailureCount(e) ==
  [e EXCEPT !.batchFailureCount = 0, !.batchFailureLastError = NoMsg,
            !.batchFailureLastProvider = None]

\* recordBatchFailure, under the failure lock.
recordBatchFailure(e, provider, message, attempts, forceDisable) ==
  IF ~e.batch.enabled THEN e
  ELSE LET increment == IF forceDisable THEN BATCH_FAILURE_LIMIT
                        ELSE IF attempts > 1 THEN attempts ELSE 1
           count == e.batchFailureCount + increment
           disabled == forceDisable \/ count >= BATCH_FAILURE_LIMIT
       IN [e EXCEPT !.batchFailureCount = count,
                    !.batchFailureLastError = message,
                    !.batchFailureLastProvider = provider,
                    !.batch.enabled = IF disabled THEN FALSE ELSE @]

BatchFrame ==
  UNCHANGED <<memFiles, sessFiles, settings, stores, disk, mgr, syncer, run, search, calls,
              backoff, query, embed, keys, registry, timers, bus, pack>>

\* runBatchWithFallback up to the await of the remote batch run; with batch
\* mode off the chunks go to embedChunksInBatches and no batch run starts.
\* At most MaxBatchRuns calls are in flight, awaiting their run or the lock.
BatchRunStart ==
  /\ emb.batch.enabled
  /\ obs.batchRuns + Len(emb.batchFailureLock) < MaxBatchRuns
  /\ obs' = [obs EXCEPT !.batchRuns = @ + 1]
  /\ emb' = emb
  /\ BatchFrame

\* The remote batch run resolves, at once or on the retry that follows a
\* timeout: resetBatchFailureCount.
BatchRunSucceeds ==
  /\ obs.batchRuns > 0
  /\ obs' = [obs EXCEPT !.batchRuns = @ - 1]
  /\ emb' = resetBatchFailureCount(emb)
  /\ BatchFrame

\* The remote batch run rejects (a timeout is retried once, and the second
\* rejection carries batchAttempts = 2): recordBatchFailure, then the chunks
\* go to embedChunksInBatches.
BatchRunFails ==
  /\ obs.batchRuns > 0
  /\ obs' = [obs EXCEPT !.batchRuns = @ - 1]
  /\ \E first \in BatchRunErrors, second \in BatchRunErrors :
       LET retried == isBatchTimeoutError(first)
           message == IF retried THEN second ELSE first
           attempts == IF retried THEN 2 ELSE 1
       IN emb' = recordBatchFailure(emb, emb.provider.id, message, attempts,
                                    ForceDisable(message))
  /\ BatchFrame

\* withBatchFailureLock.  emb.batchFailureLock holds the calls that have
\* taken their place in the chain of promises and have not released it, in
\* the order of the calls; a call is waiting (`await wait`) or inside fn.
\* A call may go on past `await wait` when the call before it has released.
EnterUnordered(lock, i) == TRUE
MayEnter(lock, i) == i = 1

\* What the failed run's catch passes to recordBatchFailure: a timeout is
\* retried once, and the second rejection carries batchAttempts = 2.
FailureOf(first, second) ==
  LET retried == isBatchTimeoutError(first)
      message == IF retried THEN second ELSE first
  IN [kind |-> "record", st |-> "waiting", message |-> message,
      attempts |-> IF retried THEN 2 ELSE 1]
ResetCall == [kind |-> "reset", st |-> "waiting", message |-> NoMsg, attempts |-> 0]

\* The remote batch run resolves: resetBatchFailureCount takes its place in
\* the chain.
BatchRunResolves ==
  /\ obs.batchRuns > 0
  /\ obs' = [obs EXCEPT !.batchRuns = @ - 1]
  /\ emb' = [emb EXCEPT !.batchFailureLock = Append(@, ResetCall)]
  /\ BatchFrame

\* The remote batch run rejects: recordBatchFailure takes its place in the
\* chain.
BatchRunRejects ==
  /\ obs.batchRuns > 0
  /\ obs' = [obs EXCEPT !.batchRuns = @ - 1]
  /\ \E first \in BatchRunErrors, second \in BatchRunErrors :
       emb' = [emb EXCEPT !.batchFailureLock = Append(@, FailureOf(first, second))]
  /\ BatchFrame

\* `await wait` returns for a call.
LockEnter ==
  /\ \E i \in DOMAIN emb.batchFailureLock :
       /\ emb.batchFailureLock[i].st = "waiting"
       /\ MayEnter(emb.batchFailureLock, i)
       /\ emb' = [emb EXCEPT !.batchFailureLock[i].st = "inside"]
  /\ obs' = obs
  /\ BatchFrame

\* fn runs and the call releases the lock.  obs.recorded lists the failures
\* that were recorded (batch mode being enabled) since the last reset.
LockExit ==
  /\ \E i \in DOMAIN emb.batchFailureLock :
       LET call == emb.batchFailureLock[i]
           rest == [j \in 1..(Len(emb.batchFailureLock) - 1) |->
                      emb.batchFailureLock[IF j < i THEN j ELSE j + 1]]
           e == [emb EXCEPT !.batchFailureLock = rest]
       IN /\ call.st = "inside"
          /\ emb' = IF call.kind = "reset" THEN resetBatchFailureCount(e)
                    ELSE recordBatchFailure(e, e.provider.id, call.message, call.attempts,
                                            ForceDisable(call.message))
          /\ obs' = [obs EXCEPT !.recorded =
                       IF call.kind = "reset" THEN <<>>
                       ELSE IF emb.batch.enabled
                       THEN Append(@, [attempts |-> call.attempts, message |-> call.message])
                       ELSE @]
  /\ BatchFrame

\* -------------------------------------------------------- embedding cache
\* What the provider returns for a text: its vector; for the text of h4 it
\* returns no embedding, which the code reads as [].
VectorOf(hash) ==
  CASE hash = "h1" -> <<1, 0>> [] hash = "h2" -> <<0, 1>> [] hash = "h3" -> <<1, 1>>
    [] OTHER -> <<>>

CacheKeyOf(e, hash) ==
  [provider |-> e.provider.id, model |-> e.provider.model, providerKey |-> e.providerKey,
   hash |-> hash]
RowKey(row) ==
  [provider |-> row.provider, model |-> row.model, providerKey |-> row.providerKey,
   hash |-> row.hash]

\* loadEmbeddingCache(hashes): hash -> embedding for the rows of the current
\* provider, model and providerKey.
LoadNothing(st, e, hashes) == <<>>
loadEmbeddingCache(st, e, hashes) ==
  IF ~settings.cache.enabled THEN <<>>
  ELSE LET found == {row \in st.cache :
                       RowKey(row) \in {CacheKeyOf(e, hashes[i]) : i \in DOMAIN hashes}}
       IN [h \in {row.hash : row \in found} |->
             (CHOOSE row \in found : row.hash = h).embedding]

\* upsertEmbeddingCache(entries): INSERT ... ON CONFLICT(provider, model,
\* provider_key, hash) DO UPDATE, with updated_at = Date.now().
RECURSIVE upsertEmbeddingCache(_, _, _, _)
upsertEmbeddingCache(st, e, entries, now) ==
  IF ~settings.cache.enabled \/ entries = <<>> THEN st
  ELSE LET entry == Head(entries)
           key == CacheKeyOf(e, entry.hash)
           row == [provider |-> key.provider, model |-> key.model,
                   providerKey |-> key.providerKey, hash |-> key.hash,
                   embedding |-> entry.embedding, dims |-> Len(entry.embedding),
                   updated_at |-> now]
       IN upsertEmbeddingCache(
            [st EXCEPT !.cache = {r \in @ : RowKey(r) # key} \cup {row}],
            e, Tail(entries), now)

\* embedChunksInBatches(chunks): the cached vectors, the provider call for
\* the chunks that miss, the upsert of what the provider returned.
MissingOf(cached, chunks) ==
  SelectSeq([i \in DOMAIN chunks |-> [index |-> i, hash |-> chunks[i]]],
            LAMBDA item : ~(item.hash \in DOMAIN cached /\ Len(cached[item.hash]) > 0))
EmbedChunksResult(cached, chunks) ==
  [i \in DOMAIN chunks |->
     IF chunks[i] \in DOMAIN cached /\ Len(cached[chunks[i]]) > 0 THEN cached[chunks[i]]
     ELSE VectorOf(chunks[i])]

CacheFrame ==
  UNCHANGED <<memFiles, sessFiles, settings, disk, mgr, emb, syncer, run, search, calls, obs,
              backoff, query, keys, registry, timers, bus, pack>>

\* Date.now() moves on.
ClockTick ==
  /\ embed.now < MaxNow
  /\ embed' = [embed EXCEPT !.now = @ + 1]
  /\ stores' = stores
  /\ CacheFrame

\* embedChunks(chunks) without batch mode, the provider call resolving.
EmbedChunks ==
  /\ \E chunks \in ChunkLists :
       LET st == stores[mgr.db]
           cached == loadEmbeddingCache(st, emb, chunks)
           missing == MissingOf(cached, chunks)
           result == EmbedChunksResult(cached, chunks)
           toCache == [k \in DOMAIN missing |->
                         [hash |-> missing[k].hash, embedding |-> result[missing[k].index]]]
       IN /\ stores' = [stores EXCEPT ![mgr.db] = upsertEmbeddingCache(st, emb, toCache,
                                                                       embed.now)]
          /\ embed' = [embed EXCEPT !.chunks = chunks,
                                    !.sent = [k \in DOMAIN missing |-> missing[k].hash],
                                    !.result = result, !.out = "ok"]
  /\ CacheFrame

\* embedChunks(chunks) whose provider call rejects: nothing is cached.
EmbedChunksFails ==
  /\ \E chunks \in ChunkLists :
       LET cached == loadEmbeddingCache(stores[mgr.db], emb, chunks)
           missing == MissingOf(cached, chunks)
       IN /\ missing # <<>>
          /\ embed' = [embed EXCEPT !.chunks = chunks,
                                    !.sent = [k \in DOMAIN missing |-> missing[k].hash],
                                    !.result = <<>>, !.out = "error"]
  /\ stores' = stores
  /\ CacheFrame

\* pruneEmbeddingCacheIfNeeded: DELETE ... ORDER BY updated_at ASC LIMIT
\* excess.  SQL leaves the order among equal updated_at open: every choice of
\* excess rows that no surviving row is older than.
PruneKeepsAll(st) == {st}
pruneEmbeddingCacheIfNeeded(st) ==
  LET max == settings.cache.maxEntries
      count == Cardinality(st.cache)
  IN IF ~settings.cache.enabled \/ max <= 0 \/ count <= max THEN {st}
     ELSE {[st EXCEPT !.cache = @ \ gone] :
             gone \in {g \in SUBSET st.cache :
                         /\ Cardinality(g) = count - max
                         /\ \A r \in g, k \in st.cache \ g : r.updated_at <= k.updated_at}}

PruneCache ==
  /\ \E st \in pruneEmbeddingCacheIfNeeded(stores[mgr.db]) :
       stores' = [stores EXCEPT ![mgr.db] = st]
  /\ embed' = [IdleEmbed EXCEPT !.now = embed.now, !.out = "pruned"]
  /\ CacheFrame

\* ------------------------------------------------------------ providerKey
\* The constructor (and activateFallback) computes the key of the provider it
\* was handed; here two managers are built, one per configuration.
ComputeKeys ==
  /\ keys.pc = "configured"
  /\ keys' = [keys EXCEPT !.pc = "computed",
                          !.keyA = computeProviderKey(keys.a),
                          !.keyB = computeProviderKey(keys.b)]
  /\ IndexUnchanged
  /\ UNCHANGED <<emb, calls, backoff, query, embed, registry, timers, bus, pack>>

\* ------------------------------------------------------------ INDEX_CACHE
RegistryFrame ==
  /\ IndexUnchanged
  /\ UNCHANGED <<emb, calls, backoff, query, embed, keys, timers, bus, pack>>

\* get(): INDEX_CACHE holds a manager for the key, which is returned as it is.
\* stale records whether close() had begun on it by then.
GetExisting ==
  \E k \in CacheKeys :
    /\ Len(registry.gets) < MaxGetCalls
    /\ registry.cache[k] # 0
    /\ registry' = [registry EXCEPT !.gets = Append(@,
         [key |-> k, pc |-> "done", result |-> registry.cache[k],
          stale |-> registry.managers[registry.cache[k]].closed])]
    /\ RegistryFrame

\* get(): no entry for the key, so the call awaits createEmbeddingProvider.
GetBegin ==
  \E k \in CacheKeys :
    /\ Len(registry.gets) < MaxGetCalls
    /\ registry.cache[k] = 0
    /\ registry' = [registry EXCEPT !.gets = Append(@,
         [key |-> k, pc |-> "awaiting", result |-> 0, stale |-> FALSE])]
    /\ RegistryFrame

\* get() after the await: a manager is constructed (its own database handle
\* and syncer), stored under the key and returned.
GetEnd ==
  \E i \in DOMAIN registry.gets :
    /\ registry.gets[i].pc = "awaiting"
    /\ LET id == Len(registry.managers) + 1
           k == registry.gets[i].key
       IN registry' = [registry EXCEPT
            !.managers = Append(@, [cacheKey |-> k, closed |-> FALSE, pc |-> "open"]),
            !.cache[k] = id,
            !.gets[i] = [@ EXCEPT !.pc = "done", !.result = id]]
    /\ RegistryFrame

\* get() after the await: createEmbeddingProvider rejected, and so does get().
GetFails ==
  \E i \in DOMAIN registry.gets :
    /\ registry.gets[i].pc = "awaiting"
    /\ registry' = [registry EXCEPT !.gets[i].pc = "rejected"]
    /\ RegistryFrame

\* close() up to its await, called by a holder of the manager: a second call
\* returns at once; the first sets closed and awaits syncer.close().
CloseBegin ==
  \E m \in DOMAIN registry.managers :
    /\ \E i \in DOMAIN registry.gets :
         registry.gets[i].pc = "done" /\ registry.gets[i].result = m
    /\ ~registry.managers[m].closed
    /\ registry' = [registry EXCEPT !.managers[m] = [@ EXCEPT !.closed = TRUE, !.pc = "closing"]]
    /\ RegistryFrame

\* close() after the await: db.close(), then INDEX_CACHE.delete(this.cacheKey).
CloseEnd ==
  \E m \in DOMAIN registry.managers :
    /\ registry.managers[m].pc = "closing"
    /\ LET k == registry.managers[m].cacheKey
       IN registry' = [registry EXCEPT
            !.managers[m].pc = "closed",
            !.cache[k] = 0,
            !.evictions = IF registry.cache[k] = 0 THEN @
                          ELSE @ \cup {<<m, registry.cache[k]>>}]
    /\ RegistryFrame

\* ------------------------------------------------------------- event bus
BusFrame ==
  /\ IndexUnchanged
  /\ UNCHANGED <<emb, calls, backoff, query, embed, keys, registry, timers, pack>>

\* onSessionTranscriptUpdate(listener): the listener is subscribed.
Subscribe ==
  \E l \in Listeners \ bus.subscribed :
    /\ bus' = [bus EXCEPT !.subscribed = @ \cup {l}]
    /\ BusFrame

\* The function onSessionTranscriptUpdate returned is called.
Unsubscribe ==
  \E l \in bus.subscribed :
    /\ bus' = [bus EXCEPT !.subscribed = @ \ {l}]
    /\ BusFrame

\* emitSessionTranscriptUpdate(sessionFile): trims the path, drops an empty
\* one, and calls every listener with {sessionFile: trimmed}.
EmitRaw(sessionFile) == sessionFile
EmittedPath(sessionFile) == Trim(sessionFile)
emitSessionTranscriptUpdate(b, sessionFile) ==
  LET trimmed == EmittedPath(sessionFile)
      logged == [b EXCEPT !.log = Append(@, [path |-> sessionFile,
                                             subscribed |-> b.subscribed])]
  IN IF trimmed = <<>> THEN logged
     ELSE [logged EXCEPT
             !.received = [l \in Listeners |->
                             IF l \in b.subscribed THEN Append(@[l], trimmed) ELSE @[l]]]

Emit ==
  \E sessionFile \in EmitPaths :
    /\ Len(bus.log) < MaxEmits
    /\ bus' = emitSessionTranscriptUpdate(bus, sessionFile)
    /\ BusFrame

\* ---------------------------------------------------- buildEmbeddingBatches
\* A chunk is [id, bytes]: its position in the input and estimateUtf8Bytes of
\* its text.  The loop keeps batches, current and currentTokens.
EMBEDDING_BATCH_MAX_TOKENS == 8000
ChunksOf(estimates) == [i \in DOMAIN estimates |-> [id |-> i, bytes |-> estimates[i]]]

\* The body of the loop for one chunk.
PackChunk(acc, chunk) ==
  LET estimate == chunk.bytes
      wouldExceed == Len(acc.current) > 0
                       /\ acc.currentTokens + estimate > EMBEDDING_BATCH_MAX_TOKENS
      flushed == IF wouldExceed
                 THEN [batches |-> Append(acc.batches, acc.current), current |-> <<>>,
                       currentTokens |-> 0]
                 ELSE acc
  IN IF Len(flushed.current) = 0 /\ estimate > EMBEDDING_BATCH_MAX_TOKENS
     THEN [flushed EXCEPT !.batches = Append(@, <<chunk>>)]
     ELSE [flushed EXCEPT !.current = Append(@, chunk), !.currentTokens = @ + estimate]

RECURSIVE PackLoop(_, _)
PackLoop(chunks, n) ==
  IF n = 0 THEN [batches |-> <<>>, current |-> <<>>, currentTokens |-> 0]
  ELSE PackChunk(PackLoop(chunks, n - 1), chunks[n])

OneBatch(chunks) == IF chunks = <<>> THEN <<>> ELSE <<chunks>>
buildEmbeddingBatches(chunks) ==
  LET acc == PackLoop(chunks, Len(chunks))
  IN IF Len(acc.current) > 0 THEN Append(acc.batches, acc.current) ELSE acc.batches

PackFrame ==
  /\ IndexUnchanged
  /\ UNCHANGED <<emb, calls, backoff, query, embed, keys, registry, timers, bus>>

\* embedChunksInBatches calls buildEmbeddingBatches(missingChunks).
BuildBatches ==
  /\ pack.pc = "idle"
  /\ pack' = [pack EXCEPT !.pc = "built", !.batches = buildEmbeddingBatches(pack.chunks)]
  /\ PackFrame

\* ------------------------------------------------- close() during a sync
\* What a Store operation on a closed handle throws.
MsgDbClosed == <<"database", "is", "not", "open">>

CloseFrame ==
  UNCHANGED <<memFiles, sessFiles, settings, stores, disk, emb, run, search, calls, obs,
              backoff, query, embed, keys, registry, timers, bus, pack>>

\* MemoryIndexManager.close() up to its await: closed = true, then
\* syncer.close() up to `await this.watcher.close()`.  Neither reads
\* this.syncing.
ManagerCloseBegin ==
  /\ TaskTurn
  /\ ~mgr.closed
  /\ mgr' = [mgr EXCEPT !.closed = TRUE, !.closePc = "awaiting"]
  /\ syncer' = [syncer EXCEPT !.closed = TRUE, !.watchTimer = FALSE,
                              !.sessionWatchTimer = FALSE,
                              !.sessionUnsubscribe = IF syncer.watcher THEN @ ELSE FALSE]
  /\ CloseFrame

\* close() after the await: the watcher is dropped, the session listener
\* unsubscribed, and this.db.close() closes the handle this.db names now.
ManagerCloseEnd ==
  /\ TaskTurn
  /\ mgr.closePc = "awaiting"
  /\ mgr' = [mgr EXCEPT !.closePc = "done", !.dbOpen = FALSE]
  /\ syncer' = [syncer EXCEPT !.watcher = FALSE, !.sessionUnsubscribe = FALSE]
  /\ CloseFrame

\* A caller of a manager that has not been closed.
CallerSyncBeforeClose == ~mgr.closed /\ CallerSync

\* The steps of a sync that begin with a Store operation, on an open handle.
RunSyncStartOnOpenDb == mgr.dbOpen /\ RunSyncStart
MemoryTaskOnOpenDb == mgr.dbOpen /\ MemoryTask
SessionTaskOnOpenDb == mgr.dbOpen /\ SessionTask

\* The same steps on a closed handle: readMeta throws before runSync's try
\* block; the statements of a task throw inside it.
StoreOpOnClosedDb ==
  /\ ~mgr.dbOpen
  /\ \/ /\ run.pc = "ensureVector"
        /\ Commit(SyncSettle(W, "error", MsgDbClosed))
     \/ /\ run.pc \in {"memTasks", "sessTasks"}
        /\ Commit(Throw(W, MsgDbClosed))
  /\ Env

\* -------------------------------------------------------------------- Spec
InitSettings ==
  [fallback |-> "gemini", vectorEnabled |-> TRUE, vecLoadable |-> TRUE, sidecars |-> TRUE,
   remoteBatch |-> FALSE, cache |-> [enabled |-> FALSE, maxEntries |-> 0],
   minScore |-> 3500, maxResults |-> 6,
   hybrid |-> [enabled |-> TRUE, vectorWeight |-> 60, textWeight |-> 40,
               candidateMultiplier |-> 4],
   chunking |-> [tokens |-> 400, overlap |-> 80],
   sync |-> [watch |-> TRUE, onSearch |-> TRUE, onSessionStart |-> TRUE,
             intervalMinutes |-> 5, watchDebounceMs |-> 1500,
             sessions |-> [deltaBytes |-> 0, deltaMessages |-> 0]]]

InitEmb ==
  [provider |-> PrimaryProvider, providerKey |-> computeProviderKey(PrimaryProvider),
   fallbackFrom |-> None, fallbackReason |-> NoMsg,
   batch |-> resolveBatchConfig(PrimaryProvider), batchFailureCount |-> 0,
   batchFailureLastError |-> NoMsg, batchFailureLastProvider |-> None,
   batchFailureLock |-> <<>>]

InitParts ==
  /\ query = IdleQuery
  /\ embed = IdleEmbed
  /\ keys = NoKeys
  /\ registry = EmptyRegistry
  /\ timers = IdleTimers
  /\ bus = EmptyBus
  /\ pack = NoPack

InitCommon ==
  /\ stores = [live |-> EmptyStore, temp |-> EmptyStore]
  /\ disk = RestDisk
  /\ mgr = [db |-> "live", dbOpen |-> TRUE, ftsAvailable |-> TRUE, vectorAvailable |-> "null",
            vectorDims |-> 0, vectorReady |-> FALSE, closed |-> FALSE, closePc |-> "idle"]
  /\ syncer = [dirty |-> TRUE, sessionsDirty |-> FALSE, sessionsDirtyFiles |-> {},
               sessionPendingFiles |-> {}, sessionDeltas |-> <<>>, sessionWarm |-> {},
               watchTimer |-> FALSE, sessionWatchTimer |-> FALSE, syncing |-> FALSE,
               closed |-> FALSE, watcher |-> settings.sync.watch,
               sessionUnsubscribe |-> TRUE]
  /\ run = IdleRun
  /\ calls = [c \in 1..MaxFallbackCalls |-> IdleCall]
  /\ search = IdleSearch
  /\ obs = [runSyncs |-> 0, edits |-> 0, batchRuns |-> 0, recorded |-> <<>>,
            warmRequested |-> {},
            warmRepeated |-> {}]
  /\ backoff = IdleRetry

Init ==
  /\ memFiles = [p \in MemPaths |-> <<"a">>]
  /\ sessFiles = [p \in SessPaths |-> <<"a">>]
  /\ settings = InitSettings
  /\ emb = InitEmb
  /\ InitCommon
  /\ InitParts

Next ==
  \/ CallerSync
  \/ MemoryFileEvent
  \/ WatchTimerFire
  \/ SessionFileEvent
  \/ SessionFileRemoved
  \/ SessionTimerFire
  \/ RunSyncStart
  \/ SyncMemoryFilesList
  \/ MemoryTask
  \/ MemoryTaskFails
  \/ SyncSessionFilesList
  \/ SessionTask
  \/ SessionTaskFails
  \/ SwapRename
  \/ ReindexReopen
  \/ ReindexCleanup
  \/ FallbackActivated
  \/ FallbackCreateFails
  \/ SyncReturn

Spec == Init /\ [][Next]_vars

\* ------------------------------------------------------------ SpecCallers
\* Every entry point of sync() (callers, the interval timer, the watch timer,
\* the session-delta batch, search, warmSession) over syncs that succeed.
NextCallers ==
  \/ CallerSync
  \/ IntervalFire
  \/ MemoryFileTouched
  \/ WatchTimerFire
  \/ SessionFileEvent
  \/ SessionTimerFire
  \/ WarmSession
  \/ SearchKeyword
  \/ SearchVector
  \/ RunSyncStart
  \/ SyncMemoryFilesList
  \/ MemoryTask
  \/ SyncSessionFilesList
  \/ SessionTask
  \/ SwapRename
  \/ ReindexReopen
  \/ SyncReturn

SpecCallers == Init /\ [][NextCallers]_vars

\* --------------------------------------------------------------- SpecSwap
\* Forced syncs over a fixed workspace, where a rename of swapIndexFiles may
\* fail; the database leaves -wal / -shm files behind or not.
InitSwap ==
  /\ memFiles = [p \in MemPaths |-> <<"a">>]
  /\ sessFiles = [p \in SessPaths |-> <<"a">>]
  /\ settings \in {[InitSettings EXCEPT !.sidecars = b] : b \in BOOLEAN}
  /\ emb = InitEmb
  /\ InitCommon
  /\ InitParts

NextSwap ==
  \/ CallerSync
  \/ RunSyncStart
  \/ SyncMemoryFilesList
  \/ MemoryTask
  \/ SyncSessionFilesList
  \/ SessionTask
  \/ SwapRename
  \/ SwapRenameFails
  \/ ReindexReopen
  \/ ReindexCleanup
  \/ SyncReturn

SpecSwap == InitSwap /\ [][NextSwap]_vars

\* ----------------------------------------------------------- SpecFallback
\* activateFallback called directly on the EmbeddingManager, the calls
\* overlapping at the await of createEmbeddingProvider.
InitFallback ==
  /\ memFiles = [p \in MemPaths |-> <<"a">>]
  /\ sessFiles = [p \in SessPaths |-> <<"a">>]
  /\ settings \in {[InitSettings EXCEPT !.fallback = f] : f \in {None, "openai", "gemini"}}
  /\ emb = InitEmb
  /\ InitCommon
  /\ InitParts

NextFallback ==
  \/ FallbackCallBegin
  \/ FallbackCallEnd

SpecFallback == InitFallback /\ [][NextFallback]_vars

\* -------------------------------------------------------------- SpecRetry
\* embedBatchWithRetry over provider calls that resolve or reject.
NextRetry ==
  \/ EmbedBatchStart
  \/ EmbedBatchResolves
  \/ EmbedBatchRejects
  \/ RetryTimerFires

SpecRetry == Init /\ [][NextRetry]_vars

\* -------------------------------------------------------------- SpecBatch
\* Remote batch runs that succeed or fail, with batch mode configured, and
\* activateFallback calls.
InitBatch ==
  /\ memFiles = [p \in MemPaths |-> <<"a">>]
  /\ sessFiles = [p \in SessPaths |-> <<"a">>]
  /\ settings \in {[InitSettings EXCEPT !.remoteBatch = TRUE, !.fallback = f] :
                     f \in {None, "gemini"}}
  /\ emb = InitEmb
  /\ InitCommon
  /\ InitParts

NextBatch ==
  \/ BatchRunStart
  \/ BatchRunSucceeds
  \/ BatchRunFails
  \/ FallbackCallBegin
  \/ FallbackCallEnd

SpecBatch == InitBatch /\ [][NextBatch]_vars

\* ------------------------------------------------------------- SpecSearch
\* search() over every query, option, scan result and failure of the scans
\* and of the query embedding; hybrid search on or off.
InitSearch ==
  /\ memFiles = [p \in MemPaths |-> <<"a">>]
  /\ sessFiles = [p \in SessPaths |-> <<"a">>]
  /\ settings \in {[InitSettings EXCEPT !.hybrid.enabled = h] : h \in BOOLEAN}
  /\ emb = InitEmb
  /\ InitCommon
  /\ query \in [text : QueryTexts, maxResults : QueryMaxResults, minScore : QueryMinScores,
                vec : QueryVectors, keywordRows : KeywordRows, vectorRows : VectorRows]
  /\ embed = IdleEmbed
  /\ keys = NoKeys
  /\ registry = EmptyRegistry
  /\ timers = IdleTimers
  /\ bus = EmptyBus
  /\ pack = NoPack

NextSearch ==
  \/ SearchKeyword
  \/ SearchKeywordFails
  \/ SearchVector
  \/ SearchVectorFails
  \/ SearchEmbedFails

SpecSearch == InitSearch /\ [][NextSearch]_vars

\* -------------------------------------------------------------- SpecCache
\* embedChunks calls over the embedding cache, and the prune, with the cache
\* enabled or not and bounded or not.
InitCache ==
  /\ memFiles = [p \in MemPaths |-> <<"a">>]
  /\ sessFiles = [p \in SessPaths |-> <<"a">>]
  /\ settings \in {[InitSettings EXCEPT !.cache = [enabled |-> c, maxEntries |-> n]] :
                     c \in BOOLEAN, n \in CacheMaxEntries}
  /\ emb = InitEmb
  /\ InitCommon
  /\ InitParts

NextCache ==
  \/ ClockTick
  \/ EmbedChunks
  \/ EmbedChunksFails
  \/ PruneCache

SpecCache == InitCache /\ [][NextCache]_vars

\* ---------------------------------------------------------------- SpecKey
\* Two managers built from any two provider configurations.
InitKey ==
  /\ memFiles = [p \in MemPaths |-> <<"a">>]
  /\ sessFiles = [p \in SessPaths |-> <<"a">>]
  /\ settings = InitSettings
  /\ emb = InitEmb
  /\ InitCommon
  /\ query = IdleQuery
  /\ embed = IdleEmbed
  /\ registry = EmptyRegistry
  /\ timers = IdleTimers
  /\ bus = EmptyBus
  /\ pack = NoPack
  /\ \E a \in ProviderConfigs, b \in ProviderConfigs :
       keys = [pc |-> "configured", a |-> a, b |-> b,
               keyA |-> computeProviderKey(PrimaryProvider),
               keyB |-> computeProviderKey(PrimaryProvider)]

NextKey == ComputeKeys

SpecKey == InitKey /\ [][NextKey]_vars

\* ----------------------------------------------------------- SpecRegistry
\* Callers of MemoryIndexManager.get and of close() on what it returned.
InitRegistry ==
  /\ memFiles = [p \in MemPaths |-> <<"a">>]
  /\ sessFiles = [p \in SessPaths |-> <<"a">>]
  /\ settings = InitSettings
  /\ emb = InitEmb
  /\ InitCommon
  /\ InitParts

NextRegistry ==
  \/ GetExisting
  \/ GetBegin
  \/ GetEnd
  \/ GetFails
  \/ CloseBegin
  \/ CloseEnd

SpecRegistry == InitRegistry /\ [][NextRegistry]_vars

\* --------------------------------------------------------------- SpecWarm
\* warmSession and search calls carrying any session key, with
\* sync.onSessionStart on or off, over syncs that succeed.
InitWarm ==
  /\ memFiles = [p \in MemPaths |-> <<"a">>]
  /\ sessFiles = [p \in SessPaths |-> <<"a">>]
  /\ settings \in {[InitSettings EXCEPT !.sync.onSessionStart = b] : b \in BOOLEAN}
  /\ emb = InitEmb
  /\ InitCommon
  /\ InitParts

NextWarm ==
  \/ WarmSession
  \/ WarmSessionBlank
  \/ SearchKeyword
  \/ SearchVector
  \/ MemoryFileTouched
  \/ RunSyncStart
  \/ SyncMemoryFilesList
  \/ MemoryTask
  \/ SyncSessionFilesList
  \/ SessionTask
  \/ SwapRename
  \/ ReindexReopen
  \/ SyncReturn

SpecWarm == InitWarm /\ [][NextWarm]_vars

\* ------------------------------------------------------------ SpecRestore
\* Reindexes that fail in the callback or in the swap, with no fallback
\* provider configured.
InitRestore ==
  /\ memFiles = [p \in MemPaths |-> <<"a">>]
  /\ sessFiles = [p \in SessPaths |-> <<"a">>]
  /\ settings \in {[InitSettings EXCEPT !.sidecars = b, !.fallback = None] : b \in BOOLEAN}
  /\ emb = InitEmb
  /\ InitCommon
  /\ InitParts

NextRestore ==
  \/ CallerSync
  \/ RunSyncStart
  \/ SyncMemoryFilesList
  \/ MemoryTask
  \/ MemoryTaskFails
  \/ SyncSessionFilesList
  \/ SessionTask
  \/ SessionTaskFails
  \/ SwapRename
  \/ SwapRenameFails
  \/ ReindexReopen
  \/ ReindexCleanup
  \/ SyncReturn

SpecRestore == InitRestore /\ [][NextRestore]_vars

\* ---------------------------------------------------------------- SpecBus
\* Listeners that subscribe and unsubscribe, and emits of any path.
InitBus ==
  /\ memFiles = [p \in MemPaths |-> <<"a">>]
  /\ sessFiles = [p \in SessPaths |-> <<"a">>]
  /\ settings = InitSettings
  /\ emb = InitEmb
  /\ InitCommon
  /\ InitParts

NextBus ==
  \/ Subscribe
  \/ Unsubscribe
  \/ Emit

SpecBus == InitBus /\ [][NextBus]_vars

\* -------------------------------------------------------------- SpecDelta
\* Session transcripts that are created, grow and rotate under several
\* delta thresholds, the batches that handle their notifications, and the
\* syncs the batches request.
InitDelta ==
  /\ memFiles = [p \in MemPaths |-> <<"a">>]
  /\ sessFiles = [p \in {} |-> <<>>]
  /\ settings \in {[InitSettings EXCEPT !.sync.sessions = th] : th \in DeltaThresholds}
  /\ emb = InitEmb
  /\ InitCommon
  /\ InitParts

NextDelta ==
  \/ SessionTranscriptEvent
  \/ SessionFileNotified
  \/ SessionTimerFire
  \/ RunSyncStart
  \/ SyncMemoryFilesList
  \/ MemoryTask
  \/ SyncSessionFilesList
  \/ SessionTask
  \/ SwapRename
  \/ ReindexReopen
  \/ SyncReturn

SpecDelta == InitDelta /\ [][NextDelta]_vars

\* -------------------------------------------------------------- SpecTimers
\* The three trigger channels under a clock: watcher events, session
\* transcript updates (for sessions/s1.jsonl and for sessions/s2.jsonl, which
\* no longer exists) and the interval, their timers, close(), and the syncs
\* the callbacks start.
InitTimers ==
  /\ memFiles = [p \in MemPaths |-> <<"a">>]
  /\ sessFiles = [p \in SessPaths |-> <<"a">>]
  /\ settings = [InitSettings EXCEPT !.sidecars = FALSE, !.sync.intervalMinutes = 1]
  /\ emb = InitEmb
  /\ InitCommon
  /\ query = IdleQuery
  /\ embed = IdleEmbed
  /\ keys = NoKeys
  /\ registry = EmptyRegistry
  /\ timers = ensureIntervalSync(IdleTimers)
  /\ bus = EmptyBus
  /\ pack = NoPack

NextTimers ==
  \/ Tick
  \/ WatcherEvent
  \/ WatchTimerFires
  \/ IntervalTimerFires
  \/ SessionUpdate
  \/ SessionTimerFires
  \/ SessionBatchEnd
  \/ SyncerCloseBegin
  \/ SyncerCloseEnd
  \/ RunSyncStart
  \/ SyncMemoryFilesList
  \/ MemoryTask
  \/ SyncSessionFilesList
  \/ SessionTask
  \/ SwapRename
  \/ ReindexReopen
  \/ SyncReturn

SpecTimers == InitTimers /\ [][NextTimers]_vars

\* ---------------------------------------------------------------- SpecPack
\* buildEmbeddingBatches over every sequence of up to MaxChunks chunks.
InitPack ==
  /\ memFiles = [p \in MemPaths |-> <<"a">>]
  /\ sessFiles = [p \in SessPaths |-> <<"a">>]
  /\ settings = InitSettings
  /\ emb = InitEmb
  /\ InitCommon
  /\ query = IdleQuery
  /\ embed = IdleEmbed
  /\ keys = NoKeys
  /\ registry = EmptyRegistry
  /\ timers = IdleTimers
  /\ bus = EmptyBus
  /\ \E n \in 0..MaxChunks : \E estimates \in [1..n -> ChunkEstimates] :
       pack = [NoPack EXCEPT !.chunks = ChunksOf(estimates)]

NextPack == BuildBatches

SpecPack == InitPack /\ [][NextPack]_vars

\* ---------------------------------------------------------------- SpecLock
\* Concurrent remote batch runs that resolve or reject, and the failure lock
\* under which their outcomes are recorded; no fallback provider.
InitLock ==
  /\ memFiles = [p \in MemPaths |-> <<"a">>]
  /\ sessFiles = [p \in SessPaths |-> <<"a">>]
  /\ settings = [InitSettings EXCEPT !.remoteBatch = TRUE, !.fallback = None]
  /\ emb = InitEmb
  /\ InitCommon
  /\ InitParts

NextLock ==
  \/ BatchRunStart
  \/ BatchRunResolves
  \/ BatchRunRejects
  \/ LockEnter
  \/ LockExit

SpecLock == InitLock /\ [][NextLock]_vars

\* ---------------------------------------------------------------- SpecVec
\* Syncs that succeed over memory files that may hold no chunk at all, with
\* the vector extension loadable.
NextVec ==
  \/ CallerSync
  \/ MemoryFileEventOrBlank
  \/ WatchTimerFire
  \/ RunSyncStart
  \/ SyncMemoryFilesList
  \/ MemoryTask
  \/ SyncSessionFilesList
  \/ SessionTask
  \/ SwapRename
  \/ ReindexReopen
  \/ SyncReturn

SpecVec == Init /\ [][NextVec]_vars

\* --------------------------------------------------------------- SpecJoin
\* Requests that arrive while a sync is in flight, over syncs that succeed:
\* the parameters of every request that was handed the promise in flight are
\* kept in run.joined until that promise has settled.
NextJoin ==
  \/ CallerSyncObserved
  \/ MemoryFileTouched
  \/ WatchTimerFire
  \/ SessionFileEvent
  \/ SessionTimerFireObserved
  \/ RunSyncStart
  \/ SyncMemoryFilesList
  \/ MemoryTask
  \/ SyncSessionFilesList
  \/ SessionTask
  \/ SwapRename
  \/ ReindexReopen
  \/ SyncReturn

SpecJoin == Init /\ [][NextJoin]_vars

\* -------------------------------------------------------------- SpecClose
\* close() of the manager at any point of a sync or a reindex; no caller
\* asks a closed manager to sync.
NextClose ==
  \/ CallerSyncBeforeClose
  \/ ManagerCloseBegin
  \/ ManagerCloseEnd
  \/ RunSyncStartOnOpenDb
  \/ SyncMemoryFilesList
  \/ MemoryTaskOnOpenDb
  \/ SyncSessionFilesList
  \/ SessionTaskOnOpenDb
  \/ StoreOpOnClosedDb
  \/ SwapRename
  \/ ReindexReopen
  \/ ReindexCleanup
  \/ SyncReturn

SpecClose == Init /\ [][NextClose]_vars

\* ------------------------------------------------------------- properties
MetaOf(st) == CHOOSE m \in st.meta : TRUE
ChunkIds(st) == {c.id : c \in st.chunks}

\* C1: sync() is serialized.  Whatever entry point calls sync() while a sync
\* is in flight, no second runSync starts: at most one runSync is executing.
SyncSerialized == obs.runSyncs <= 1

\* C1, the case: a search whose onSearch sync() call found a sync in flight
\* and got its promise, while that runSync is still executing.
SyncSerializedCase ==
  /\ search.pc = "embedQuery"
  /\ search.joined
  /\ syncer.syncing
  /\ obs.runSyncs = 1
  /\ run.params.reason # "search"

\* C2: when the callback of reindex fails part-way (before the databases are
\* closed for the swap), no step of the reindex touches the live store, and
\* the step that ends reindex's catch block leaves no temporary index file,
\* leaves this.db open on the live store at the original path, with the
\* content (meta row included) it had before the reindex.
ReindexFailureRestores ==
  [][(run.reindexing /\ ~run.originalDbClosed) =>
       /\ stores'.live = stores.live
       /\ (run.pc = "cleanup" /\ run'.pc # "cleanup") =>
            /\ disk'.temp = NoFiles
            /\ disk'.live = disk.live
            /\ mgr'.db = "live"
            /\ mgr'.dbOpen
            /\ ReadsDb(mgr') = "live"]_vars

\* C2, the case: a forced reindex over an index that holds chunks has failed
\* in its callback with an error that activates no fallback, and the sync
\* has rejected with it.
ReindexFailureRestoresCase ==
  /\ run.pc = "settled"
  /\ run.result = "error"
  /\ run.err = MsgFetch
  /\ run.params.force
  /\ stores.live.chunks # {}
  /\ stores.live.meta # {}
  /\ mgr.db = "live"
  /\ disk.temp = NoFiles

\* C3: when a sync that ran a full reindex has completed successfully, the
\* meta row of the live index holds the current provider id, model,
\* providerKey, chunkTokens and chunkOverlap, and every chunks row of the live
\* index has the current provider's model.
ReindexWritesCurrentProvider ==
  (run.pc = "settled" /\ run.result = "ok" /\ run.full) =>
    /\ mgr.db = "live"
    /\ stores.live.meta # {}
    /\ MetaOf(stores.live).provider = emb.provider.id
    /\ MetaOf(stores.live).model = emb.provider.model
    /\ MetaOf(stores.live).providerKey = emb.providerKey
    /\ MetaOf(stores.live).chunkTokens = settings.chunking.tokens
    /\ MetaOf(stores.live).chunkOverlap = settings.chunking.overlap
    /\ \A c \in stores.live.chunks : c.model = emb.provider.model

\* C3, the case: a full reindex under the fallback provider has completed,
\* replacing an index built under the primary provider, and holds chunks.
ReindexWritesCurrentProviderCase ==
  /\ run.pc = "settled"
  /\ run.result = "ok"
  /\ run.full
  /\ emb.fallbackFrom = "openai"
  /\ stores.live.chunks # {}

\* C4: a full reindex is atomic for readers.  The scan of a search() that
\* interleaves with a reindex reads the live store (the index before the
\* reindex or the one swapped in), never the temporary store being built.
SearchReadsLiveIndex == search.pc = "embedQuery" => search.keyword = "live"

\* C4, the case: a search has started while a reindex is filling the
\* temporary store.
SearchReadsLiveIndexCase ==
  /\ search.pc = "embedQuery"
  /\ run.reindexing
  /\ run.pc \in {"memList", "memTasks", "sessList", "sessTasks"}

\* C5: the swap never loses the live index.  With at most one rename failing,
\* once swapIndexFiles has moved the files (it awaits the removal of the
\* backup) or has thrown, the live path holds the complete old index or the
\* complete new index, and a failure has surfaced as the error of the reindex.
LiveIndexComplete == disk.live = DbFiles("old") \/ disk.live = DbFiles("new")
SwapKeepsLiveIndex ==
  /\ (run.pc = "removeBackup" /\ run.renameFailures = 0) => disk.live = DbFiles("new")
  /\ (run.pc = "cleanup" /\ run.originalDbClosed /\ run.renameFailures = 1) =>
       /\ LiveIndexComplete
       /\ run.err = MsgRename

\* C5, the case: a rename of the swap has failed and swapIndexFiles has thrown.
SwapKeepsLiveIndexCase ==
  /\ run.pc = "cleanup"
  /\ run.originalDbClosed
  /\ run.renameFailures = 1
  /\ run.err = MsgRename

\* The rows of one path in a store: files, chunks, chunks_vec, chunks_fts.
\* A chunk id carries the path it was computed from.
PathOfId(id) == id[2][2]
FileRows(st, p) ==
  [files |-> IF p \in DOMAIN st.files THEN {st.files[p]} ELSE {},
   chunks |-> {c \in st.chunks : c.path = p},
   vec |-> {id \in st.vec : PathOfId(id) = p},
   fts |-> [r \in {x \in DOMAIN st.fts : x.path = p} |-> st.fts[r]]]
NoRowsFor(st, p) ==
  /\ p \notin DOMAIN st.files
  /\ \A c \in st.chunks : c.path # p
  /\ \A id \in st.vec : PathOfId(id) # p
  /\ \A r \in DOMAIN st.fts : r.path # p

\* C6: after a memory or session file has been removed, a subsequent sync
\* removes its rows.  When a sync has completed successfully, a file that was
\* already gone when sync() was called (and is still gone) has no row left in
\* files, chunks, chunks_vec or chunks_fts of the live index.
RemovedFileRowsPruned ==
  (run.pc = "settled" /\ run.result = "ok") =>
    \A p \in run.absent :
      p \notin (DOMAIN memFiles \cup DOMAIN sessFiles) => NoRowsFor(stores.live, p)

\* C6, the case: a sync called after a file was removed has completed.
RemovedFileRowsPrunedCase ==
  /\ run.pc = "settled"
  /\ run.result = "ok"
  /\ run.absent # {}
  /\ run.absent \cap (DOMAIN memFiles \cup DOMAIN sessFiles) = {}

\* C7: in a sync that is not a full reindex, a file whose content hash equals
\* the hash of its files row is skipped: while every file still to process
\* in the pass is such a file, no step changes the rows of these files
\* (files, chunks, chunks_vec, chunks_fts) and no embedding call is made for
\* them, so the pass cannot fail on an embedding error.
RowHashIs(st, p, source, hash) ==
  /\ p \in DOMAIN st.files
  /\ st.files[p].source = source
  /\ st.files[p].hash = hash
MemoryPendingUnchanged ==
  /\ run.pc = "memTasks"
  /\ ~run.full
  /\ run.pending # {}
  /\ \A p \in run.pending : RowHashIs(stores[mgr.db], p, "memory", run.entries[p])
SessionPendingUnchanged ==
  /\ run.pc = "sessTasks"
  /\ ~run.full
  /\ run.pending # {}
  /\ \A p \in run.pending :
       /\ p \in DOMAIN sessFiles
       /\ RowHashIs(stores[mgr.db], p, "sessions", EntryHash(sessFiles[p]))
UnchangedFilesSkipped ==
  [][(MemoryPendingUnchanged \/ SessionPendingUnchanged) =>
       /\ \A p \in run.pending :
            FileRows(stores'[mgr'.db], p) = FileRows(stores[mgr.db], p)
       /\ run'.err = NoMsg
       /\ run'.pc \notin {"cleanup", "fallback"}]_vars

\* C7, the case: a non-full sync is about to process a session file marked
\* dirty whose hash equals the hash of its files row.
UnchangedFilesSkippedCase ==
  /\ SessionPendingUnchanged
  /\ run.pending \subseteq syncer.sessionsDirtyFiles
  /\ stores.live.chunks # {}

\* C8: a full reindex with unchanged configuration and unchanged source files
\* yields the same set of chunks.id as the index it replaces, whatever sync
\* reason triggered it or built the replaced index.  No file has changed
\* since construction (no file event so far), the provider is the configured
\* one, and there is an index to replace.
ReindexKeepsChunkIds ==
  [][(/\ run.pc = "removeBackup"
      /\ run'.pc = "settled"
      /\ obs.edits = 0
      /\ emb.fallbackFrom = None
      /\ stores.live.meta # {}) =>
       ChunkIds(stores'.live) = ChunkIds(stores.live)]_vars

\* C8, the case: a full reindex over unchanged files and configuration is
\* about to swap in an index that replaces one holding chunks.
ReindexKeepsChunkIdsCase ==
  /\ run.pc = "removeBackup"
  /\ obs.edits = 0
  /\ emb.fallbackFrom = None
  /\ stores.live.meta # {}
  /\ stores.live.chunks # {}

\* C9: activateFallback switches the provider at most once per
\* EmbeddingManager, under any interleaving of calls: at most one call
\* returns true.
FallbackAtMostOnce == Cardinality({c \in DOMAIN calls : calls[c].st = "true"}) <= 1

\* C9, the case: two calls overlap at the await of createEmbeddingProvider.
FallbackAtMostOnceCase ==
  Cardinality({c \in DOMAIN calls : calls[c].st = "creating"}) >= 2

\* C10: the words of a message decide the fallback.  (a) runSync's catch
\* block starts activateFallback's switch only for a message that matches
\* /embedding|embeddings|batch/i, with a fallback configured that differs from
\* the provider and was not used; (b) with such a message and such a fallback
\* the sync does not reject with that error but goes on to the switch; (c) a
\* sync that rejects without having switched rejects with the error that was
\* thrown; (d) the switch is followed, in the same sync, by a forced full
\* reindex under the fallback provider with a recomputed providerKey, and
\* when that sync completes meta.provider is the fallback provider.
MatchingMessages == {MsgEmbedding, MsgBatch}
FallbackUsable(e) ==
  /\ settings.fallback # None
  /\ settings.fallback # e.provider.id
  /\ e.fallbackFrom = None
FallbackOnMatchingError ==
  [][/\ (run.pc # "fallback" /\ run'.pc = "fallback") =>
          (run'.err \in MatchingMessages /\ FallbackUsable(emb) /\ emb' = emb)
     /\ (run.pc \notin {"idle", "settled", "fallback"} /\ ~run.retry /\ run'.pc = "settled"
           /\ run'.result = "error") =>
          /\ ~(run'.err \in MatchingMessages /\ FallbackUsable(emb))
          /\ emb' = emb
          /\ ~run'.activated
          /\ (run.pc = "cleanup" => run'.err = run.err)
     /\ (run.pc = "fallback" /\ run'.pc \notin {"fallback", "settled"}) =>
          /\ emb'.provider.id = settings.fallback
          /\ emb'.providerKey = computeProviderKey(emb'.provider)
          /\ emb'.providerKey # emb.providerKey
          /\ run'.params.force
          /\ run'.full /\ run'.reindexing /\ run'.activated
     /\ (run'.pc = "settled" /\ run'.result = "ok" /\ run'.activated) =>
          /\ stores'.live.meta # {}
          /\ MetaOf(stores'.live).provider = settings.fallback
          /\ run'.full]_vars

\* C10, the case: a sync that failed on a matching message has switched to the
\* fallback provider and completed its forced full reindex.
FallbackOnMatchingErrorCase ==
  /\ run.pc = "settled"
  /\ run.result = "ok"
  /\ run.activated
  /\ run.params.force
  /\ emb.provider.id = "gemini"
  /\ stores.live.chunks # {}

\* C11: embedBatchWithRetry makes at most 3 attempts.  One invocation calls
\* the provider's embedBatch at most EMBEDDING_RETRY_MAX_ATTEMPTS times, and
\* an invocation whose first call fails with a non-retryable error rejects
\* with it after that one call.
RetryAtMostMaxAttempts ==
  /\ backoff.calls <= EMBEDDING_RETRY_MAX_ATTEMPTS
  /\ (backoff.pc = "rejected" /\ backoff.attempt = 0 /\ ~isRetryableEmbeddingError(backoff.err))
       => backoff.calls = 1

\* C11, the case: every call of one invocation has failed with a retryable
\* error and the invocation has rejected.
RetryAtMostMaxAttemptsCase ==
  /\ backoff.pc = "rejected"
  /\ isRetryableEmbeddingError(backoff.err)
  /\ backoff.attempt = EMBEDDING_RETRY_MAX_ATTEMPTS

\* C12: once batch failures have disabled batch mode, batch.enabled never
\* becomes true again, whatever operation follows (batch mode is configured
\* and starts enabled, so only failures turn it off).
BatchStaysDisabled == [][~emb.batch.enabled => ~emb'.batch.enabled]_vars

\* C12, the case: batch mode is enabled while the failure count recorded
\* when it was disabled is still at the limit.
BatchStaysDisabledCase ==
  /\ emb.batch.enabled
  /\ emb.batchFailureCount >= BATCH_FAILURE_LIMIT
  /\ emb.fallbackFrom # None

\* C13: search() never throws.  Whatever fails (the keyword scan, the vector
\* scan, the query embedding), the promise of search() resolves to a list.
SearchNeverRejects == search.out # "error"

\* C13, the case: the query embedding of a search with a non-empty query has
\* failed.
SearchNeverRejectsCase ==
  /\ search.pc = "idle"
  /\ search.out = "error"
  /\ Trim(query.text) # <<>>

\* C14: the list search() returns has at most maxResults entries (for
\* maxResults >= 0), every entry has score >= minScore, and in hybrid mode
\* the entries are in non-increasing order of combined score.
SearchResultsBounded ==
  (search.out = "ok" /\ MaxResultsOf(query) >= 0) =>
    /\ Len(search.results) <= MaxResultsOf(query)
    /\ \A i \in DOMAIN search.results : search.results[i].score >= MinScoreOf(query)
    /\ settings.hybrid.enabled =>
         \A i, j \in DOMAIN search.results :
           i < j => search.results[i].score >= search.results[j].score

\* C14, the case: a hybrid search with maxResults = 2 whose scans gave three
\* ids above minScore has returned two entries.
SearchResultsBoundedCase ==
  /\ search.pc = "idle"
  /\ settings.hybrid.enabled
  /\ query.maxResults = <<2>>
  /\ query.minScore = <<0>>
  /\ Len(search.vectorResults) = 2
  /\ Len(search.keywordResults) = 2
  /\ Len(search.results) = 2

\* C15: hybrid fusion.  The result of a hybrid search holds ids of the union
\* of the vector and the keyword rows, each once, with combined score
\* vectorWeight * vScore + textWeight * tScore (a missing side counts 0); no
\* id at or above minScore is left out unless maxResults is reached; and for
\* vector [(A,0.9),(B,0.5)], keyword [(B,0.7),(C,0.4)], weights 0.6 / 0.4 the
\* result is [B 0.58, A 0.54, C 0.16], and [B, A] with minScore = 0.5.
RowIds(rows) == {rows[i].id : i \in DOMAIN rows}
VScoreOf(id) ==
  IF id \in RowIds(search.vectorResults)
  THEN search.vectorResults[CHOOSE i \in DOMAIN search.vectorResults :
                              search.vectorResults[i].id = id].score
  ELSE 0
TScoreOf(id) ==
  IF id \in RowIds(search.keywordResults)
  THEN search.keywordResults[CHOOSE i \in DOMAIN search.keywordResults :
                               search.keywordResults[i].id = id].textScore
  ELSE 0
CombinedScore(id) ==
  (settings.hybrid.vectorWeight * VScoreOf(id) + settings.hybrid.textWeight * TScoreOf(id))
    \div 100
ExampleScans ==
  /\ search.vectorResults = <<[id |-> "A", score |-> 9000], [id |-> "B", score |-> 5000]>>
  /\ search.keywordResults = <<[id |-> "B", textScore |-> 7000],
                               [id |-> "C", textScore |-> 4000]>>
HybridFusionUnion ==
  (search.pc = "idle" /\ search.out = "ok" /\ settings.hybrid.enabled) =>
    /\ \A i \in DOMAIN search.results :
         /\ search.results[i].id \in RowIds(search.vectorResults)
                                       \cup RowIds(search.keywordResults)
         /\ search.results[i].score = CombinedScore(search.results[i].id)
         /\ \A j \in DOMAIN search.results : search.results[j].id = search.results[i].id => j = i
    /\ Len(search.results) < MaxResultsOf(query) =>
         \A id \in RowIds(search.vectorResults) \cup RowIds(search.keywordResults) :
           CombinedScore(id) >= MinScoreOf(query) => id \in RowIds(search.results)
    /\ (ExampleScans /\ query.minScore = <<0>> /\ query.maxResults = <<>>) =>
         search.results = <<[id |-> "B", score |-> 5800], [id |-> "A", score |-> 5400],
                            [id |-> "C", score |-> 1600]>>
    /\ (ExampleScans /\ query.minScore = <<5000>> /\ query.maxResults = <<>>) =>
         search.results = <<[id |-> "B", score |-> 5800], [id |-> "A", score |-> 5400]>>

\* C15, the case: the hybrid search over the example rows with minScore 0
\* has returned three entries.
HybridFusionUnionCase ==
  /\ search.pc = "idle"
  /\ search.out = "ok"
  /\ settings.hybrid.enabled
  /\ ExampleScans
  /\ query.minScore = <<0>>
  /\ Len(search.results) = 3

\* C16 as stated: with the cache enabled and the provider, model and
\* providerKey unchanged, an embedChunks call leaves exactly one
\* embedding_cache row for the key of each of its chunks, and for a chunk
\* whose key already had a row it returns the stored vector without calling
\* the provider for that chunk.
CacheOf(sts) == sts[mgr.db].cache
RowsFor(cache, hash) == {row \in cache : RowKey(row) = CacheKeyOf(emb, hash)}
SentHashes(e) == {e.sent[k] : k \in DOMAIN e.sent}
EmbedChunksStep == embed'.out = "ok" /\ embed'.now = embed.now /\ emb' = emb
CacheHitReturnsStored ==
  [][(settings.cache.enabled /\ EmbedChunksStep) =>
       \A i \in DOMAIN embed'.chunks :
         LET h == embed'.chunks[i]
         IN /\ Cardinality(RowsFor(CacheOf(stores'), h)) = 1
            /\ \A row \in RowsFor(CacheOf(stores), h) :
                 /\ h \notin SentHashes(embed')
                 /\ embed'.result[i] = row.embedding]_vars

\* C16, amended: the same, for a chunk whose stored vector is not empty; a
\* stored empty vector counts as a miss, the chunk is sent to the provider
\* again and its row is rewritten, still the only row for its key.
CacheHitReturnsNonEmptyStored ==
  [][(settings.cache.enabled /\ EmbedChunksStep) =>
       \A i \in DOMAIN embed'.chunks :
         LET h == embed'.chunks[i]
         IN /\ Cardinality(RowsFor(CacheOf(stores'), h)) = 1
            /\ \A row \in RowsFor(CacheOf(stores), h) :
                 IF Len(row.embedding) > 0
                 THEN /\ h \notin SentHashes(embed')
                      /\ embed'.result[i] = row.embedding
                      /\ row \in CacheOf(stores')
                 ELSE h \in SentHashes(embed')]_vars

\* C16, the case: an embedChunks call for h1 was served from the cache, with
\* no provider call, after time had passed since the row was written.
CacheHitReturnsNonEmptyStoredCase ==
  /\ settings.cache.enabled
  /\ embed.out = "ok"
  /\ embed.chunks = <<"h1">>
  /\ embed.sent = <<>>
  /\ embed.result = <<VectorOf("h1")>>
  /\ \E row \in RowsFor(CacheOf(stores), "h1") : row.updated_at < embed.now

\* C17: immediately after pruneEmbeddingCacheIfNeeded (cache enabled,
\* maxEntries > 0) embedding_cache holds at most maxEntries rows; the prune
\* only removes rows, no more than the excess, and no removed row is newer
\* than a surviving one; with maxEntries = 3 and rows with updated_at 1, 2,
\* 3, 4 the survivors are 2, 3, 4.
UpdatedAts(cache) == {row.updated_at : row \in cache}
PruneRemovesOldest ==
  [][(settings.cache.enabled /\ settings.cache.maxEntries > 0 /\ embed'.out = "pruned") =>
       LET before == CacheOf(stores)
           after == CacheOf(stores')
           max == settings.cache.maxEntries
       IN /\ Cardinality(after) <= max
          /\ after \subseteq before
          /\ Cardinality(after) = IF Cardinality(before) < max THEN Cardinality(before) ELSE max
          /\ \A gone \in before \ after, kept \in after : gone.updated_at <= kept.updated_at
          /\ (max = 3 /\ Cardinality(before) = 4 /\ UpdatedAts(before) = {1, 2, 3, 4})
               => UpdatedAts(after) = {2, 3, 4}]_vars

\* C17, the case: a prune with maxEntries = 3 has left the rows written at 2,
\* 3 and 4, the row of h1 written at 1 being gone.
PruneRemovesOldestCase ==
  /\ settings.cache.enabled
  /\ settings.cache.maxEntries = 3
  /\ embed.out = "pruned"
  /\ Cardinality(CacheOf(stores)) = 3
  /\ UpdatedAts(CacheOf(stores)) = {2, 3, 4}
  /\ RowsFor(CacheOf(stores), "h1") = {}

\* The header names the code treats as secret, lower-cased.
SecretHeaderNames == {"authorization", "x-goog-api-key"}
IsSecretHeader(name) == LowerCase(name) \in SecretHeaderNames
PublicHeaders(p) ==
  IF ClientOf(p) = <<>> THEN {}
  ELSE {e \in ClientOf(p)[1].headers : ~IsSecretHeader(e[1])}
SecretHeaderNamesOf(p) ==
  IF ClientOf(p) = <<>> THEN {}
  ELSE {e[1] : e \in {h \in ClientOf(p)[1].headers : IsSecretHeader(h[1])}}
BaseUrlOf(p) == IF ClientOf(p) = <<>> THEN <<>> ELSE <<ClientOf(p)[1].baseUrl>>
\* Same provider id, base URL, model and non-secret headers.
SameIdentity(a, b) ==
  /\ a.id = b.id
  /\ a.model = b.model
  /\ BaseUrlOf(a) = BaseUrlOf(b)
  /\ PublicHeaders(a) = PublicHeaders(b)
\* The two configurations differ only in the values of secret headers.
DifferOnlyInSecretValues(a, b) ==
  /\ SameIdentity(a, b)
  /\ SecretHeaderNamesOf(a) = SecretHeaderNamesOf(b)
  /\ a # b

\* C18: two provider configurations that differ only in the values of secret
\* headers get the same providerKey, and two that differ in provider id, base
\* URL, model or a non-secret header get different keys.
ProviderKeyIgnoresSecrets ==
  keys.pc = "computed" =>
    /\ DifferOnlyInSecretValues(keys.a, keys.b) => keys.keyA = keys.keyB
    /\ ~SameIdentity(keys.a, keys.b) => keys.keyA # keys.keyB

\* C18, first failing case: two openai configurations that differ only in
\* the value of the x-goog-api-key header, with different keys.
ProviderKeySecretLeakCase ==
  /\ keys.pc = "computed"
  /\ keys.a.id = "openai"
  /\ DifferOnlyInSecretValues(keys.a, keys.b)
  /\ keys.keyA # keys.keyB

\* C18, second failing case: two voyage configurations with different base
\* URLs and the same key.
ProviderKeyCollisionCase ==
  /\ keys.pc = "computed"
  /\ keys.a.id = "voyage" /\ keys.b.id = "voyage"
  /\ BaseUrlOf(keys.a) # BaseUrlOf(keys.b)
  /\ keys.keyA = keys.keyB

ManagersOf(k) == {m \in DOMAIN registry.managers : registry.managers[m].cacheKey = k}
NoCloseYet == \A m \in DOMAIN registry.managers : ~registry.managers[m].closed
ReturnedGets == {i \in DOMAIN registry.gets : registry.gets[i].pc = "done"}

\* C19: while no close() has been called, all get() calls for one key resolve
\* to the same manager and at most one manager has been constructed for it.
GetReturnsSameInstance ==
  NoCloseYet =>
    \A k \in CacheKeys :
      /\ \A i, j \in ReturnedGets :
           registry.gets[i].key = k /\ registry.gets[j].key = k
             => registry.gets[i].result = registry.gets[j].result
      /\ Cardinality(ManagersOf(k)) <= 1

\* C19, the failing case: two get() calls for one key, no close(), and two
\* managers returned.
GetReturnsSameInstanceCase ==
  /\ NoCloseYet
  /\ \E i, j \in ReturnedGets :
       /\ registry.gets[i].key = registry.gets[j].key
       /\ registry.gets[i].result # registry.gets[j].result

\* C20: get() never returns a manager whose close() has begun or whose
\* database is closed, and close() of one manager never removes the entry of
\* another manager.
CloseRemovesOwnEntryFirst ==
  /\ \A i \in ReturnedGets : ~registry.gets[i].stale
  /\ \A e \in registry.evictions : e[1] = e[2]

\* C20, first failing case: get() returned a manager on which close() had
\* begun.
GetReturnedClosingCase == \E i \in ReturnedGets : registry.gets[i].stale

\* C20, second failing case: close() of one manager removed the entry of
\* another.
CloseEvictsOtherCase == \E e \in registry.evictions : e[1] # e[2]

\* C20, the part the code keeps: the entry is gone once the database is
\* closed, so get() never returns a manager whose database is closed.
ClosedStoreNotCached ==
  \A k \in CacheKeys :
    registry.cache[k] # 0 => registry.managers[registry.cache[k]].pc # "closed"

\* C22 as stated: for every non-empty session key at most one sync with
\* reason "session-start" is requested, and none with onSessionStart off.
WarmOncePerKey ==
  /\ obs.warmRepeated = {}
  /\ ~settings.sync.onSessionStart => obs.warmRequested = {}

\* C22: for every session key that is non-empty once trimmed, at most one
\* sync with reason "session-start" is requested, however many warmSession or
\* search calls carry it, and the key counts as warmed from then on; with
\* sync.onSessionStart off none is requested for any key.
WarmOncePerTrimmedKey ==
  /\ \A key \in obs.warmRepeated : Trim(key) = <<>>
  /\ \A key \in obs.warmRequested : Trim(key) # <<>> => Trim(key) \in syncer.sessionWarm
  /\ ~settings.sync.onSessionStart => obs.warmRequested = {}

\* C22: a key has been warmed, a sync has completed since, and a further
\* call carrying the key found no sync in flight.
WarmOncePerTrimmedKeyCase ==
  /\ settings.sync.onSessionStart
  /\ <<"k", "1">> \in obs.warmRequested
  /\ <<" ", "k", "1">> \in obs.warmRequested \/ <<" ">> \in obs.warmRepeated
  /\ ~syncer.syncing
  /\ stores.live.meta # {}

\* C30: a sync whose reason is "session-start" or "watch" never runs the
\* session pass, whatever force, needsFullReindex and the dirty flags are.
NoSessionPassForWatch ==
  run.pc \in {"sessList", "sessTasks"} => run.params.reason \notin {"session-start", "watch"}

\* C30, the failing case: the forced retry after a fallback activation of a
\* sync with reason "watch" is in its session pass.
NoSessionPassForWatchCase ==
  /\ run.pc = "sessTasks"
  /\ run.params.reason = "watch"
  /\ run.params.force
  /\ run.retry

\* The step in which reindex's catch block runs restoreOriginalState.
ReindexCleanupStep == run.pc = "cleanup" /\ run'.pc # "cleanup"

\* C25 as stated: after a reindex whose callback or swap fails, the memoized
\* vectorReady is cleared.
VectorReadyCleared == [][ReindexCleanupStep => ~mgr'.vectorReady]_vars

\* C25: after a reindex whose swap fails (the original database was closed)
\* vectorReady and vector.available are cleared; after one whose callback
\* fails the original handle is this.db again and vectorReady and
\* vector.available are what they were when the reindex began.
VectorReadyRestored ==
  [][ReindexCleanupStep =>
       IF run.originalDbClosed
       THEN ~mgr'.vectorReady /\ mgr'.vectorAvailable = "null"
       ELSE /\ mgr'.vectorReady = run.original.vectorReady
            /\ mgr'.vectorAvailable = run.original.vectorAvailable]_vars

\* C25: the first reindex failed in its callback and vectorReady is still
\* memoized.
VectorReadyRestoredCase ==
  /\ run.pc = "settled"
  /\ run.result = "error"
  /\ run.err \in EmbedErrors
  /\ stores.live.meta = {}
  /\ mgr.db = "live"
  /\ mgr.vectorReady

\* The chunks rows of (source, path) in a store are the chunks of content.
DerivedFrom(st, path, source, content) ==
  {[startLine |-> r.startLine, endLine |-> r.endLine, hash |-> r.hash] :
     r \in RowsOf(st, path, source)}
    = {[startLine |-> c.startLine, endLine |-> c.endLine, hash |-> c.hash] :
         c \in {chunkMarkdown(content)[i] : i \in DOMAIN chunkMarkdown(content)}}
ChunksHaveFileRow(st) ==
  \A r \in st.chunks :
    /\ r.path \in DOMAIN st.files
    /\ st.files[r.path].source = r.source
    /\ \E content \in Contents :
         /\ st.files[r.path].hash = EntryHash(content)
         /\ DerivedFrom(st, r.path, r.source, content)

\* C24: in every state, each chunks row has a files row with the same source
\* and path whose hash is the content hash of the file version the chunks of
\* that file were derived from.
ChunksMatchFileHash == ChunksHaveFileRow(stores.live) /\ ChunksHaveFileRow(stores.temp)

\* C24, the failing case: between syncs, the live index holds for a memory
\* file the chunks of one version under the hash of another.
ChunksMatchFileHashCase ==
  /\ run.pc = "idle"
  /\ mgr.db = "live"
  /\ \E p \in MemPaths :
       /\ p \in DOMAIN stores.live.files
       /\ RowsOf(stores.live, p, "memory") # {}
       /\ \E content \in Contents :
            /\ stores.live.files[p].hash = EntryHash(content)
            /\ ~DerivedFrom(stores.live, p, "memory", content)

\* The part of a path between its first and its last character that is not a
\* blank; <<>> when it has none.
Visible(path) == {i \in DOMAIN path : path[i] # " "}
Core(path) ==
  IF Visible(path) = {} THEN <<>>
  ELSE LET first == CHOOSE i \in Visible(path) : \A j \in Visible(path) : i <= j
           last == CHOOSE i \in Visible(path) : \A j \in Visible(path) : j <= i
       IN SubSeq(path, first, last)
\* What a listener must have been called with, given the first n emits.
RECURSIVE Expected(_, _)
Expected(l, n) ==
  IF n = 0 THEN <<>>
  ELSE LET e == bus.log[n]
       IN IF l \in e.subscribed /\ Core(e.path) # <<>>
          THEN Append(Expected(l, n - 1), Core(e.path))
          ELSE Expected(l, n - 1)

\* C23: a listener is invoked exactly once per emit, with the trimmed path,
\* if and only if it is subscribed at emit time and the trimmed path is not
\* empty.
ListenersNotifiedOnce == \A l \in Listeners : bus.received[l] = Expected(l, Len(bus.log))

\* C23: a blank path and a padded path were emitted, to one listener that is
\* subscribed and one that has unsubscribed.
ListenersNotifiedOnceCase ==
  /\ Len(bus.log) = MaxEmits
  /\ \E i, j \in DOMAIN bus.log :
       /\ Core(bus.log[i].path) = <<>>
       /\ bus.log[i].subscribed # {}
       /\ Core(bus.log[j].path) # bus.log[j].path
       /\ Core(bus.log[j].path) # <<>>
       /\ bus.log[j].subscribed = {"A"}
  /\ bus.received["B"] = <<>>
  /\ Len(bus.received["A"]) = 1

\* ---- session deltas (C26, C27, C28)
\* The step in which the session debounce timer fires and the batch handles
\* the notified files, and the state updateSessionDelta reaches for one of them.
SessionBatchStep == syncer.sessionWatchTimer /\ ~syncer'.sessionWatchTimer
UpdatedDelta(f) == updateSessionDelta(DeltaStateOf(syncer, f), sessFiles[f])
NotifiedFiles == syncer.sessionPendingFiles \cap DOMAIN sessFiles
SessionDeltaSyncStarts ==
  run.pc = "idle" /\ run'.pc # "idle" /\ run'.params.reason = "session-delta"

IndexableAsStated(th, d) ==
  \/ (IF th.deltaBytes <= 0 THEN d.pendingBytes > 0 ELSE d.pendingBytes >= th.deltaBytes)
  \/ d.pendingMessages >= th.deltaMessages
IndexableNow(th, d) ==
  \/ (IF th.deltaBytes <= 0 THEN d.pendingBytes > 0 ELSE d.pendingBytes >= th.deltaBytes)
  \/ (IF th.deltaMessages <= 0 THEN d.pendingMessages > 0
      ELSE d.pendingMessages >= th.deltaMessages)

\* C26 as stated: a batch marks exactly the notified files whose updated
\* state has pendingBytes >= deltaBytes (pendingBytes > 0 when deltaBytes <= 0)
\* or pendingMessages >= deltaMessages, and requests a "session-delta" sync
\* exactly when there is one.
MarkedIffThresholdAsStated ==
  [][SessionBatchStep =>
       LET hit == {f \in NotifiedFiles : IndexableAsStated(settings.sync.sessions, UpdatedDelta(f))}
       IN /\ syncer'.sessionsDirtyFiles = syncer.sessionsDirtyFiles \cup hit
          /\ (~SyncInFlight(syncer) => (SessionDeltaSyncStarts <=> hit # {}))]_vars

\* C26 amended: a batch marks exactly the notified files whose updated
\* state has pendingBytes >= deltaBytes (pendingBytes > 0 when deltaBytes <= 0)
\* or pendingMessages >= deltaMessages (pendingMessages > 0 when
\* deltaMessages <= 0); when no sync is in flight a sync with reason
\* "session-delta" starts exactly when some file was marked, and otherwise
\* the request joins the run in flight.
MarkedIffThreshold ==
  [][SessionBatchStep =>
       LET hit == {f \in NotifiedFiles : IndexableNow(settings.sync.sessions, UpdatedDelta(f))}
       IN /\ syncer'.sessionsDirtyFiles = syncer.sessionsDirtyFiles \cup hit
          /\ (~SyncInFlight(syncer) => (SessionDeltaSyncStarts <=> hit # {}))
          /\ (hit = {} => run' = run)]_vars

\* C26 witness: deltaBytes = 1024 and deltaMessages = 5; 512 bytes were
\* appended and handled (one message counted, nothing marked), then 600 more:
\* pendingBytes is 1112 and exactly that file is marked.
MarkedIffThresholdCase ==
  /\ settings.sync.sessions = [deltaBytes |-> 1024, deltaMessages |-> 5]
  /\ syncer.sessionsDirtyFiles = {"sessions/s1.jsonl"}
  /\ "sessions/s1.jsonl" \in DOMAIN syncer.sessionDeltas
  /\ syncer.sessionDeltas["sessions/s1.jsonl"] =
       [lastSize |-> 1112, pendingBytes |-> 1112, pendingMessages |-> 1]
  /\ run.pc = "ensureVector" /\ run.params.reason = "session-delta"

Decremented(pending, threshold) ==
  IF threshold <= 0 THEN 0 ELSE IF pending > threshold THEN pending - threshold ELSE 0

\* C27: when a batch marks a file, the pendingBytes and pendingMessages held
\* in the file's session-delta state are the updated ones decremented by the
\* thresholds, floored at zero.
PendingDecrementedOnHit ==
  [][SessionBatchStep =>
       \A f \in NotifiedFiles :
         LET th == settings.sync.sessions
             d == UpdatedDelta(f)
         IN f \in syncer'.sessionsDirtyFiles \ syncer.sessionsDirtyFiles =>
              /\ syncer'.sessionDeltas[f].pendingBytes = Decremented(d.pendingBytes, th.deltaBytes)
              /\ syncer'.sessionDeltas[f].pendingMessages
                   = Decremented(d.pendingMessages, th.deltaMessages)]_vars

\* C27 case: a file that has not grown since a batch marked it was notified
\* again, and its state still holds the pending bytes that reached the threshold.
PendingKeptAfterHitCase ==
  /\ settings.sync.sessions = [deltaBytes |-> 1024, deltaMessages |-> 5]
  /\ "sessions/s1.jsonl" \in syncer.sessionsDirtyFiles \cap syncer.sessionPendingFiles
  /\ "sessions/s1.jsonl" \in DOMAIN syncer.sessionDeltas
  /\ syncer.sessionDeltas["sessions/s1.jsonl"].pendingBytes = 1112
  /\ syncer.sessionDeltas["sessions/s1.jsonl"].lastSize = EntrySize(sessFiles["sessions/s1.jsonl"])

\* The session files whose task of syncSessionFiles ends in this step.
HandledSessionFiles ==
  IF run.pc # "sessTasks" THEN {}
  ELSE IF run'.pc = "sessTasks" THEN run.pending \ run'.pending
  ELSE run.pending

SyncStarts == run.pc = "idle" /\ run'.pc # "idle"

\* C21: once close() has been called, no callback starts a sync.
NoSyncStartAfterClose == [][syncer.closed => ~SyncStarts]_vars

\* C21 case: close() has been called while a session-delta batch that had
\* taken its files was awaiting; no sync is in flight.
BatchRunningAtCloseCase ==
  /\ syncer.closed
  /\ timers.batches # <<>>
  /\ run.pc = "idle"

TimerChannels == {"watch", "session", "interval"}
TimersOf(t, channel) == {x \in t.pending : x.channel = channel}
OneTimerPerChannel(t) == \A ch \in TimerChannels : Cardinality(TimersOf(t, ch)) <= 1
WatchTimerCountsFromLastEvent(t) ==
  \A x \in TimersOf(t, "watch") : x.due = t.lastWatchEvent + settings.sync.watchDebounceMs
WatchTimerFiresStep ==
  /\ syncer'.closed = syncer.closed
  /\ timers'.watchTimer = 0
  /\ TimersOf(timers', "watch") # TimersOf(timers, "watch")
BatchTakesFilesStep == Len(timers'.batches) > Len(timers.batches)

\* C29: each channel has at most one pending timer, and the step in which
\* close() is called leaves none pending; a pending watch timer is due
\* watchDebounceMs after the last watcher event, and its callback runs no
\* earlier; while session files are waiting and close() has not been called
\* the session timer is pending, and the batch its callback starts takes
\* every waiting file, each once, and leaves none waiting.
OneTimerPerChannelDebounced ==
  [][/\ OneTimerPerChannel(timers) /\ OneTimerPerChannel(timers')
     /\ WatchTimerCountsFromLastEvent(timers')
     /\ (~syncer.closed /\ syncer'.closed => timers'.pending = {})
     /\ (WatchTimerFiresStep =>
           timers.now >= timers.lastWatchEvent + settings.sync.watchDebounceMs)
     /\ (~syncer'.closed /\ syncer'.sessionPendingFiles # {} =>
           TimersOf(timers', "session") # {})
     /\ (BatchTakesFilesStep =>
           LET files == timers'.batches[Len(timers'.batches)]
           IN /\ {files[i] : i \in DOMAIN files} = syncer.sessionPendingFiles
              /\ Len(files) = Cardinality(syncer.sessionPendingFiles)
              /\ TimersOf(timers, "session") # {}
              /\ timers.now >= SESSION_DIRTY_DEBOUNCE_MS
              /\ syncer'.sessionPendingFiles = {})]_vars

\* C29 witness: one batch has taken both session files notified while the
\* session timer was pending, and a watch timer set by an event at the
\* current time is pending with the interval timer.
OneTimerPerChannelDebouncedCase ==
  /\ timers.batches # <<>>
  /\ Len(timers.batches[1]) = 2
  /\ timers.now > 0
  /\ timers.lastWatchEvent = timers.now
  /\ TimersOf(timers, "watch") # {}
  /\ TimersOf(timers, "interval") # {}
  /\ ~syncer.closed

\* ---- buildEmbeddingBatches (C34)
RECURSIVE Flatten(_)
Flatten(seqs) == IF seqs = <<>> THEN <<>> ELSE Head(seqs) \o Flatten(Tail(seqs))
RECURSIVE SumBytes(_)
SumBytes(batch) == IF batch = <<>> THEN 0 ELSE Head(batch).bytes + SumBytes(Tail(batch))

\* C34: the batches returned are non-empty, their concatenation is the input
\* (consecutive, in order, nothing lost or duplicated), every batch of more
\* than one chunk has a cumulative estimate of at most
\* EMBEDDING_BATCH_MAX_TOKENS, and a chunk whose own estimate exceeds the cap
\* is alone in its batch.
BatchesPartitionInput ==
  pack.pc = "built" =>
    /\ Flatten(pack.batches) = pack.chunks
    /\ \A b \in DOMAIN pack.batches :
         /\ pack.batches[b] # <<>>
         /\ Len(pack.batches[b]) > 1 => SumBytes(pack.batches[b]) <= 8000
         /\ \A i \in DOMAIN pack.batches[b] :
              pack.batches[b][i].bytes > 8000 => Len(pack.batches[b]) = 1

\* C34 witness: of three chunks two fill a batch to the cap exactly and the
\* third, oversized, stands alone.
BatchesPartitionInputCase ==
  /\ pack.pc = "built"
  /\ Len(pack.chunks) = 3
  /\ Len(pack.batches) = 2
  /\ \E b \in DOMAIN pack.batches :
       /\ Len(pack.batches[b]) = 2
       /\ SumBytes(pack.batches[b]) = 8000
  /\ \E b \in DOMAIN pack.batches :
       /\ Len(pack.batches[b]) = 1
       /\ pack.batches[b][1].bytes > 8000

\* ---- the batch failure lock (C31)
InsideLock(e) == {i \in DOMAIN e.batchFailureLock : e.batchFailureLock[i].st = "inside"}
RECURSIVE AttemptsIn(_)
AttemptsIn(recorded) ==
  IF recorded = <<>> THEN 0 ELSE Head(recorded).attempts + AttemptsIn(Tail(recorded))
RECURSIVE WeightIn(_)
WeightIn(recorded) ==
  IF recorded = <<>> THEN 0
  ELSE (IF Head(recorded).message = MsgBatchNotAvailable THEN 2 ELSE Head(recorded).attempts)
         + WeightIn(Tail(recorded))
NotAvailableRecorded ==
  /\ Len(obs'.recorded) = Len(obs.recorded) + 1
  /\ obs'.recorded[Len(obs'.recorded)].message = MsgBatchNotAvailable
DisabledOnceAtLimit ==
  /\ Cardinality(InsideLock(emb')) <= 1
  /\ (~emb.batch.enabled =>
        ~emb'.batch.enabled /\ emb'.batchFailureCount <= emb.batchFailureCount)
  /\ (emb.batch.enabled /\ ~emb'.batch.enabled =>
        \/ emb.batchFailureCount < 2 /\ emb'.batchFailureCount >= 2
        \/ NotAvailableRecorded)
  /\ (emb'.batch.enabled => emb'.batchFailureCount < 2)

\* C31 as stated: at most one call is inside the lock, the counter is the
\* number of failed batch attempts recorded since the last success, batch
\* mode is turned off once, at the step where the counter reaches the limit
\* or a "not available" error is recorded, and the counter does not grow
\* after that.
FailureCounterCountsAttempts ==
  [][DisabledOnceAtLimit /\ emb'.batchFailureCount = AttemptsIn(obs'.recorded)]_vars

\* C31 amended: at most one call is inside the lock; the counter is the sum,
\* over the failures recorded since the last success, of the attempts of each
\* (2 for a timeout that was retried), a "not available" error counting as
\* BATCH_FAILURE_LIMIT; batch mode is turned off once, at the step where the
\* counter reaches the limit or a "not available" error is recorded, and the
\* counter does not grow after that.
FailureCounterExact ==
  [][DisabledOnceAtLimit /\ emb'.batchFailureCount = WeightIn(obs'.recorded)]_vars

\* C31 witness: of two runs in flight together one has failed and turned batch
\* mode off; the other's failure waits for the lock and will not be counted.
FailureCounterExactCase ==
  /\ ~emb.batch.enabled
  /\ emb.batchFailureCount >= BATCH_FAILURE_LIMIT
  /\ Len(obs.recorded) = 1
  /\ Len(emb.batchFailureLock) = 1
  /\ emb.batchFailureLock[1].kind = "record"

\* ---- chunks_vec and chunks_fts (C32, C33)
FtsOnePerId(st) ==
  \A r \in DOMAIN st.fts :
    /\ st.fts[r] = 1
    /\ \A q \in DOMAIN st.fts : q.id = r.id => q = r
FtsOfActiveModel(st) == \A r \in DOMAIN st.fts : r.model = emb.provider.model

\* C32: whenever no sync is in flight, chunks_fts of the index in use holds
\* at most one row per chunk id, and every one of its rows carries the model
\* of the active provider.
FtsRowsUniqueAndCurrent ==
  run.pc = "idle" => FtsOnePerId(stores[mgr.db]) /\ FtsOfActiveModel(stores[mgr.db])

\* C32 case: no sync is in flight, the provider is the fallback provider, and
\* the index in use holds chunks_fts rows of the model of the provider that
\* was replaced.
StaleModelFtsCase ==
  /\ run.pc = "idle"
  /\ emb.fallbackFrom # None
  /\ DOMAIN stores[mgr.db].fts # {}
  /\ \A r \in DOMAIN stores[mgr.db].fts : r.model # emb.provider.model

\* The ids of the chunks rows of a Store (every stored embedding is
\* non-empty: the providers return one vector per chunk).
ChunkIdsOf(st) == {c.id : c \in st.chunks}

\* C33: with the vector extension loaded and no sync in flight, the index in
\* use holds a chunks_vec row for an id exactly when it holds a chunks row
\* with that id.
VecRowsMatchChunks ==
  (run.pc = "idle" /\ mgr.vectorAvailable = "true")
    => stores[mgr.db].vec = ChunkIdsOf(stores[mgr.db])

\* A memory file that holds no chunk has been indexed, and vector rows of
\* its former chunks are still in the index.
OrphanVecRowCase ==
  /\ run.pc = "idle"
  /\ mgr.vectorAvailable = "true"
  /\ \E p \in DOMAIN memFiles :
       /\ memFiles[p] = <<>>
       /\ p \in DOMAIN stores[mgr.db].files
       /\ stores[mgr.db].files[p].hash = EntryHash(<<>>)
  /\ stores[mgr.db].vec \ ChunkIdsOf(stores[mgr.db]) # {}

\* A Store records the present content of every memory file, and no memory
\* file that is gone.
MemoryFilesCurrentIn(st) ==
  /\ \A p \in DOMAIN memFiles :
       /\ p \in DOMAIN st.files
       /\ st.files[p] = [source |-> "memory", hash |-> EntryHash(memFiles[p])]
  /\ \A p \in DOMAIN st.files : st.files[p].source = "memory" => p \in DOMAIN memFiles
MemoryIndexCurrent == MemoryFilesCurrentIn(stores[mgr.db])

\* The syncer rests: no sync in flight, no watch timer pending, dirty clear.
SyncerAtRest ==
  /\ run.pc = "idle"
  /\ ~syncer.syncing
  /\ ~syncer.watchTimer
  /\ ~syncer.dirty

\* C35: no change of a watched memory file is lost: the syncer never rests
\* (dirty clear, no watch timer pending, no sync in flight) while the index
\* misses the present content of a memory file.
NoMemoryChangeLost == SyncerAtRest => MemoryIndexCurrent

\* A memory file changed, the syncer rests with every timer fired, an index
\* has been built, and it still holds the earlier content.
ChangeDuringSyncLostCase ==
  /\ SyncerAtRest
  /\ obs.edits > 0
  /\ stores[mgr.db].meta # {}
  /\ ~MemoryIndexCurrent

\* runSync's promise has been rejected.
FailedSync == run.pc = "settled" /\ run.result = "error"

\* C36: the dirty flag is cleared only for work that is visible in the index:
\* when a sync has failed, either dirty is still set or the index in use
\* records the present content of every memory file.
DirtyKeptOnFailure == FailedSync => (syncer.dirty \/ MemoryIndexCurrent)

\* A forced full reindex is failing after its memory pass: the temporary
\* store, about to be discarded, records every memory file and the original
\* one does not; dirty is clear, no watch timer is pending, and a sync
\* without force would not reindex the original store in full.
DirtyClearedByDiscardedPassCase ==
  /\ run.pc = "cleanup"
  /\ run.params.force
  /\ mgr.db = "temp"
  /\ MemoryFilesCurrentIn(stores.temp)
  /\ ~MemoryFilesCurrentIn(stores.live)
  /\ ~syncer.dirty
  /\ ~syncer.watchTimer
  /\ ~NeedsFullReindex([reason |-> None, force |-> FALSE], readMeta(stores.live), emb,
                       settings.vectorEnabled /\ settings.vecLoadable)

\* runSync's promise has been fulfilled after a full reindex.
FullReindexDone == run.pc = "settled" /\ run.result = "ok" /\ run.full

\* The memory files and session transcripts that existed when the sync began
\* and still exist.
SourceFiles == (DOMAIN memFiles \cup DOMAIN sessFiles) \ run.absent

\* C37: a full reindex is complete for every enabled source: when a full
\* reindex has succeeded, every memory file and every session transcript has
\* a files row in the index now in use.
FullReindexCoversSources ==
  FullReindexDone => \A p \in SourceFiles : p \in DOMAIN stores[mgr.db].files

\* A full reindex started by the watch timer or by warmSession has succeeded
\* and a session transcript has no files row in the index now in use.
ReindexWithoutSessionsCase ==
  /\ FullReindexDone
  /\ run.params.reason \in {"watch", "session-start"}
  /\ \E p \in DOMAIN sessFiles \ run.absent : p \notin DOMAIN stores[mgr.db].files

\* What runSync would compute for a sync without force that started now.
FullReindexRequiredNow ==
  NeedsFullReindex([reason |-> None, force |-> FALSE], readMeta(stores[mgr.db]), emb,
                   ensureVectorReady(mgr, 0).ready)

\* C38: a full reindex stabilises: once a full reindex has written meta, with
\* the configuration and the provider unchanged, a sync without force does
\* not require another full reindex.
FullReindexStabilises ==
  (run.pc = "idle" /\ readMeta(stores[mgr.db]) # {} /\ emb.fallbackFrom = None)
    => ~FullReindexRequiredNow

\* A full reindex of a workspace without memory files has succeeded with the
\* vector extension loadable: meta holds no vectorDims.
ReindexWithoutVectorDimsCase ==
  /\ run.pc = "idle"
  /\ emb.fallbackFrom = None
  /\ settings.vectorEnabled /\ settings.vecLoadable
  /\ stores[mgr.db].files = <<>>
  /\ \E m \in readMeta(stores[mgr.db]) : m.vectorDims = 0
  /\ FullReindexRequiredNow

\* A sync's promise has been fulfilled; the requests in run.joined resolve
\* with it.
SyncFulfilled == run.pc = "settled" /\ run.result = "ok"

\* C40: a request's parameters survive deduplication: when the promise
\* handed to a sync({force: true}) request is fulfilled, a full reindex has
\* run; when the promise handed to a sync({reason: "session-delta"}) request
\* is fulfilled, no session file is left marked dirty.
JoinedParamsHonoured ==
  SyncFulfilled =>
    /\ (\E q \in run.joined : q.force) => run.full
    /\ (\E q \in run.joined : q.reason = "session-delta") => syncer.sessionsDirtyFiles = {}

\* A forced request was handed the promise of a sync that ran no full
\* reindex, and that promise is fulfilled.
ForcedRequestJoinedCase ==
  /\ SyncFulfilled
  /\ \E q \in run.joined : q.force
  /\ ~run.params.force
  /\ ~run.full

\* A session-delta request was handed the promise of a sync that ran no
\* session pass, and that promise is fulfilled with the session files still
\* marked dirty.
SessionDeltaRequestJoinedCase ==
  /\ SyncFulfilled
  /\ \E q \in run.joined : q.reason = "session-delta"
  /\ syncer.sessionsDirtyFiles # {}

\* close() has returned and no sync is in flight.
ClosedAtRest == mgr.closePc = "done" /\ run.pc = "idle"

\* C39: close() is safe with respect to a sync or reindex in flight: no
\* Store operation is performed on a closed handle, and once close() has
\* returned and the sync is over, no Store handle is open and no temporary
\* reindex file is left.
CloseIsSafe ==
  /\ run.err # MsgDbClosed
  /\ ClosedAtRest => (~mgr.dbOpen /\ disk.temp = NoFiles /\ disk.backup = NoFiles)

\* close() returned during a reindex; the reindex has ended and this.db is
\* an open handle again.
ReopenedAfterCloseCase == ClosedAtRest /\ mgr.dbOpen

\* A sync in flight has run a Store operation on the handle close() closed.
StoreOpAfterCloseCase == mgr.closePc = "done" /\ run.err = MsgDbClosed

====
